---- MODULE Spec2Model ----
(***************************************************************************)
(* Model of the code-review extension: GitAnalyzer.getStagedChanges,       *)
(* CodeAnalyzer.analyzeChanges (language-model path, rule-based analysis,  *)
(* fallback report), the CodeReviewPanel singleton with its webview        *)
(* message handler, and the startReview / goToLine commands.               *)
(*                                                                         *)
(* Three specifications share the variables below:                         *)
(*   SpecAnalyzer  analyzeChanges applied to bounded inputs                *)
(*   SpecGit       getStagedChanges applied to bounded repository states   *)
(*   Spec          the running extension (commands, panel, webview)        *)
(***************************************************************************)
EXTENDS Integers, Sequences, FiniteSets, TLC

\* ------------------------------------------------------------------------
\* Bounds
\* ------------------------------------------------------------------------
MaxChanges == 2
MaxLines == 2
MaxStaged == 2
MaxReviews == 2
MaxMessages == 1
MaxText == 3
MaxRuleLines == 3
MaxFiles == 2
MaxIssues == 2

\* ------------------------------------------------------------------------
\* Values
\* ------------------------------------------------------------------------
\* A JavaScript value that is absent (undefined) is the empty sequence, a
\* present value v is <<v>>.
None == << >>
Some(v) == << v >>

\* Absent numeric field of a parsed model response.
MissingNum == -1

\* Absent lineNumber of an issue (line numbers are 1-based).
NoLine == 0

\* The i-th staged file of the workspace (fsPath is "/ws/" \o name).
FileNames == << "a.ts", "b.js", "c.tsx" >>

FsPath(name) == << "ws", name >>

\* A line of text is abstracted to the substrings the analyzer looks for and
\* to whether it is longer than 120 characters.
Line(toks, long) == [toks |-> toks, long |-> long]

SampleLines ==
    { Line({}, FALSE),
      Line({"console.log"}, FALSE),
      Line({"console.log", "// TODO: Remove"}, FALSE),
      Line({"eval("}, TRUE),
      Line({"async ", "any"}, FALSE) }

\* line.includes(tok): "// TODO: Remove" contains "TODO".
Includes(line, tok) ==
    \/ tok \in line.toks
    \/ tok = "TODO" /\ "// TODO: Remove" \in line.toks

\* content.includes(tok) for a token without a line break.
ContentIncludes(lines, tok) == \E i \in 1..Len(lines) : Includes(lines[i], tok)

\* fileName.endsWith(".ts") || fileName.endsWith(".tsx")
IsTypeScript(fileName) == fileName \in {"a.ts", "c.tsx"}

IssueTypes == {"error", "warning", "info", "positive"}

Issue(type, title, description, lineNumber, codeSnippet, suggestion) ==
    [type |-> type, title |-> title, description |-> description,
     lineNumber |-> lineNumber, codeSnippet |-> codeSnippet,
     suggestion |-> suggestion]

\* ------------------------------------------------------------------------
\* CodeAnalyzer: rule-based analysis
\* ------------------------------------------------------------------------
consoleLogIssue(line, n) ==
    IF Includes(line, "console.log") /\ ~Includes(line, "// TODO: Remove")
    THEN << Issue("warning", "Console.log Statement",
                  "Console.log statement found in production code",
                  n, Some(line.toks),
                  Some("Consider removing or replacing with proper logging")) >>
    ELSE << >>

todoIssue(line, n) ==
    IF Includes(line, "TODO") \/ Includes(line, "FIXME")
    THEN << Issue("info", "TODO/FIXME Comment",
                  "Code contains TODO or FIXME comment",
                  n, Some(line.toks),
                  Some("Address the TODO/FIXME item before finalizing")) >>
    ELSE << >>

securityIssue(line, n) ==
    IF Includes(line, "eval(") \/ Includes(line, "innerHTML =")
    THEN << Issue("error", "Potential Security Risk",
                  "Code contains potentially unsafe operations",
                  n, Some(line.toks),
                  Some("Review for security implications")) >>
    ELSE << >>

longLineIssue(line, n) ==
    IF line.long
    THEN << Issue("info", "Long Line",
                  "Line exceeds 120 characters",
                  n, Some(line.toks),
                  Some("Consider breaking into multiple lines for readability")) >>
    ELSE << >>

\* Body of lines.forEach for the line with index n-1.
lineIssues(line, n) ==
    consoleLogIssue(line, n) \o todoIssue(line, n)
        \o securityIssue(line, n) \o longLineIssue(line, n)

\* lines.forEach with the index passed on as the line number.
RECURSIVE forEachLineZeroBased(_, _)
forEachLineZeroBased(lines, n) ==
    IF n > Len(lines) THEN << >>
    ELSE lineIssues(lines[n], n - 1) \o forEachLineZeroBased(lines, n + 1)

RECURSIVE forEachLine(_, _)
forEachLine(lines, n) ==
    IF n > Len(lines) THEN << >>
    ELSE lineIssues(lines[n], n) \o forEachLine(lines, n + 1)

missingErrorHandlingIssue(lines) ==
    IF /\ ContentIncludes(lines, "async ")
       /\ ~ContentIncludes(lines, "try {")
       /\ ~ContentIncludes(lines, ".catch(")
    THEN << Issue("warning", "Missing Error Handling",
                  "Async function without explicit error handling",
                  NoLine, None,
                  Some("Consider adding try-catch blocks or .catch() handlers")) >>
    ELSE << >>

anyTypeIssue(fileName, lines) ==
    IF /\ IsTypeScript(fileName)
       /\ ContentIncludes(lines, "any")
       /\ ~ContentIncludes(lines, "// eslint-disable")
    THEN << Issue("warning", "TypeScript 'any' Type",
                  "Code uses 'any' type which reduces type safety",
                  NoLine, None,
                  Some("Consider using more specific types")) >>
    ELSE << >>

positiveIssue ==
    Issue("positive", "Code Quality",
          "No obvious issues detected in this file",
          NoLine, None,
          Some("Good work! Continue following best practices"))

\* analyzeFileContent with the positive note pushed without the test for an
\* empty list.
analyzeFileContentAlwaysPositive(change) ==
    LET lines == change.newContent[1]
    IN  forEachLine(lines, 1)
            \o missingErrorHandlingIssue(lines)
            \o anyTypeIssue(change.fileName, lines)
            \o << positiveIssue >>

\* analyzeFileContent on a change whose newContent is a string: the issues
\* pushed, in order.
analyzeFileContent(change) ==
    LET lines == change.newContent[1]
        found == forEachLine(lines, 1)
                    \o missingErrorHandlingIssue(lines)
                    \o anyTypeIssue(change.fileName, lines)
    IN  IF Len(found) = 0 THEN << positiveIssue >> ELSE found

\* analyzeFileContent throws a TypeError at content.split when the change
\* has no newContent property.
analyzeFileContentThrows(change) == change.newContent = None

\* issues.filter(...).length with the type test dropped.
CountTypeUnfiltered(issues, types, i) == Len(issues)

RECURSIVE CountType(_, _, _)
CountType(issues, types, i) ==
    IF i > Len(issues) THEN 0
    ELSE (IF issues[i].type \in types THEN 1 ELSE 0)
            + CountType(issues, types, i + 1)

\* files.reduce((sum, file) => sum + file.issues.length, 0) from file i on
RECURSIVE SumIssues(_, _)
SumIssues(files, i) ==
    IF i > Len(files) THEN 0
    ELSE Len(files[i].issues) + SumIssues(files, i + 1)

\* files.reduce((sum, file) => sum + file.issues.filter(...).length, 0)
RECURSIVE SumType(_, _, _)
SumType(files, types, i) ==
    IF i > Len(files) THEN 0
    ELSE CountType(files[i].issues, types, 1) + SumType(files, types, i + 1)

Max(a, b) == IF a >= b THEN a ELSE b

Summary(filesAnalyzed, totalIssues, errors, warnings, suggestions, score) ==
    [filesAnalyzed |-> filesAnalyzed, totalIssues |-> totalIssues,
     errors |-> errors, warnings |-> warnings, suggestions |-> suggestions,
     overallScore |-> score]

\* A settled promise: resolved with a report, or rejected.
Resolved(report) == [resolved |-> TRUE, report |-> Some(report)]
Rejected == [resolved |-> FALSE, report |-> None]

\* performRuleBasedAnalysis with Math.max(1, ...) left out of the score.
performRuleBasedAnalysisNoFloor(changes) ==
    IF \E i \in 1..Len(changes) : analyzeFileContentThrows(changes[i])
    THEN Rejected
    ELSE
      LET files == [i \in 1..Len(changes) |->
                      [fileName |-> changes[i].fileName,
                       filePath |-> changes[i].filePath,
                       issues |-> analyzeFileContent(changes[i])]]
          totalIssues == SumIssues(files, 1)
          errors == SumType(files, {"error"}, 1)
          warnings == SumType(files, {"warning"}, 1)
          suggestions == SumType(files, {"info", "positive"}, 1)
      IN  Resolved([summary |->
                      Summary(Len(changes), totalIssues, errors, warnings,
                              suggestions,
                              IF totalIssues = 0 THEN 9
                              ELSE 9 - errors * 2 - warnings),
                    files |-> files])

\* The timestamp of a report (new Date().toISOString()) is not modelled.
performRuleBasedAnalysis(changes) ==
    IF \E i \in 1..Len(changes) : analyzeFileContentThrows(changes[i])
    THEN Rejected
    ELSE
      LET files == [i \in 1..Len(changes) |->
                      [fileName |-> changes[i].fileName,
                       filePath |-> changes[i].filePath,
                       issues |-> analyzeFileContent(changes[i])]]
          totalIssues == SumIssues(files, 1)
          errors == SumType(files, {"error"}, 1)
          warnings == SumType(files, {"warning"}, 1)
          suggestions == SumType(files, {"info", "positive"}, 1)
      IN  Resolved([summary |->
                      Summary(Len(changes), totalIssues, errors, warnings,
                              suggestions,
                              IF totalIssues = 0 THEN 9
                              ELSE Max(1, 9 - errors * 2 - warnings)),
                    files |-> files])

\* ------------------------------------------------------------------------
\* CodeAnalyzer: fallback report and parsed language-model response
\* ------------------------------------------------------------------------
fallbackIssue ==
    Issue("info", "LLM Analysis Unavailable",
          "Unable to perform AI-powered analysis. Please check your language model configuration.",
          NoLine, None,
          Some("Ensure you have a language model configured in VSCode settings."))

createFallbackReport(changes) ==
    LET files == [i \in 1..Len(changes) |->
                    [fileName |-> changes[i].fileName,
                     filePath |-> changes[i].filePath,
                     issues |-> << fallbackIssue >>]]
    IN  [summary |-> Summary(Len(changes), Len(files), 0, 0, Len(files), 5),
         files |-> files]

\* A string property that the parsed JSON does not have.
Absent == "<absent>"

\* x || d for a number x of the parsed JSON (undefined and 0 are falsy).
OrDefault(x, d) == IF x = MissingNum \/ x = 0 THEN d ELSE x

\* parsed.summary?.field
SummaryField(parsed, field) ==
    IF parsed.summary = None THEN MissingNum ELSE parsed.summary[1][field]

\* The text of a model response after JSON.parse: a syntax error, the JSON
\* value null, or a value whose summary and files properties may be absent.
ParsedObject(summary, files) ==
    [parse |-> "object", summary |-> summary, files |-> files]

ParseError == [parse |-> "error", summary |-> None, files |-> None]

ParsedNull == [parse |-> "null", summary |-> None, files |-> None]

\* parseLLMResponse whose catch block runs the rule-based checks instead of
\* building the fallback report.
parseLLMResponseRuleBasedCatch(streamThrows, parsed, changes) ==
    IF streamThrows \/ parsed.parse # "object"
    THEN IF performRuleBasedAnalysis(changes).resolved
         THEN performRuleBasedAnalysis(changes).report[1]
         ELSE [summary |-> Summary(Len(changes), 0, 0, 0, 0, 9),
               files |-> << >>]
    ELSE [summary |->
            Summary(Len(changes),
                    OrDefault(SummaryField(parsed, "criticalIssues"), 0)
                      + OrDefault(SummaryField(parsed, "warnings"), 0)
                      + OrDefault(SummaryField(parsed, "suggestions"), 0),
                    OrDefault(SummaryField(parsed, "criticalIssues"), 0),
                    OrDefault(SummaryField(parsed, "warnings"), 0),
                    OrDefault(SummaryField(parsed, "suggestions"), 0),
                    OrDefault(SummaryField(parsed, "overallScore"), 5)),
          files |-> IF parsed.files = None THEN << >> ELSE parsed.files[1]]

\* parseLLMResponse: streamThrows is true when iterating response.text
\* throws; both that and a failing JSON.parse or property access end in the
\* catch block.
parseLLMResponse(streamThrows, parsed, changes) ==
    IF streamThrows \/ parsed.parse # "object"
    THEN createFallbackReport(changes)
    ELSE [summary |->
            Summary(Len(changes),
                    OrDefault(SummaryField(parsed, "criticalIssues"), 0)
                      + OrDefault(SummaryField(parsed, "warnings"), 0)
                      + OrDefault(SummaryField(parsed, "suggestions"), 0),
                    OrDefault(SummaryField(parsed, "criticalIssues"), 0),
                    OrDefault(SummaryField(parsed, "warnings"), 0),
                    OrDefault(SummaryField(parsed, "suggestions"), 0),
                    OrDefault(SummaryField(parsed, "overallScore"), 5)),
          files |-> IF parsed.files = None THEN << >> ELSE parsed.files[1]]

\* What the Language Model API does during one analyzeChanges call.
Lm(kind, response) == [kind |-> kind, response |-> response]

LmFailureKinds == {"noApi", "selectThrows", "noModel", "sendThrows"}

\* analyzeChanges: the settled promise.  With the API absent the rule-based
\* analysis runs inside the try block and, when it throws, once more in the
\* catch block; an exception of the language-model calls also ends in the
\* catch block.
analyzeChanges(changes, lm) ==
    IF lm.kind \in LmFailureKinds
    THEN performRuleBasedAnalysis(changes)
    ELSE Resolved(parseLLMResponse(lm.kind = "streamThrows", lm.response,
                                   changes))

\* ------------------------------------------------------------------------
\* GitAnalyzer
\* ------------------------------------------------------------------------
\* status & bit, for a bit that is a power of two
HasBit(status, bit) == (status \div bit) % 2 = 1

INDEX_ADDED == 2
INDEX_DELETED == 4

\* getChangeType with the test for INDEX_ADDED made first.
getChangeTypeAddedFirst(status) ==
    IF HasBit(status, INDEX_ADDED) THEN "added"
    ELSE IF HasBit(status, INDEX_DELETED) THEN "deleted"
    ELSE "modified"

\* status & Status.INDEX_DELETED is tested before status & Status.INDEX_ADDED.
getChangeType(status) ==
    IF HasBit(status, INDEX_DELETED) THEN "deleted"
    ELSE IF HasBit(status, INDEX_ADDED) THEN "added"
    ELSE "modified"

\* What a diff call of the Git extension does for one file: it throws, or
\* returns a text that may be empty.
DiffThrows == "<throws>"

\* An entry of repository.state.indexChanges: the file, its status and what
\* repository.diffIndexWithHEAD(path) and repository.diffWith("HEAD", path)
\* do for it.
IndexChange(name, status, diffIndexWithHEAD, diffWith) ==
    [fsPath |-> FsPath(name), status |-> status,
     diffIndexWithHEAD |-> diffIndexWithHEAD, diffWith |-> diffWith]

\* fsPath.split(/[\\/]/).pop()
BaseName(fsPath) == fsPath[Len(fsPath)]

\* The diff awaited in the loop body.
diffOf(change) ==
    IF getChangeType(change.status) = "deleted"
    THEN change.diffWith
    ELSE change.diffIndexWithHEAD

\* getStagedChanges with the empty-diff test dropped.
RECURSIVE stagedLoopKeepsEmpty(_, _)
stagedLoopKeepsEmpty(stagedChanges, i) ==
    IF i > Len(stagedChanges) THEN << >>
    ELSE (IF diffOf(stagedChanges[i]) = DiffThrows
          THEN << >>
          ELSE << [filePath |-> stagedChanges[i].fsPath,
                   fileName |-> BaseName(stagedChanges[i].fsPath),
                   diff |-> diffOf(stagedChanges[i]),
                   changeType |-> getChangeType(stagedChanges[i].status),
                   newContent |-> None] >>)
         \o stagedLoopKeepsEmpty(stagedChanges, i + 1)

\* getStagedChanges with break in place of continue in the loop's catch.
RECURSIVE stagedLoopStopsAtThrow(_, _)
stagedLoopStopsAtThrow(stagedChanges, i) ==
    IF i > Len(stagedChanges) THEN << >>
    ELSE IF diffOf(stagedChanges[i]) = DiffThrows THEN << >>
    ELSE (IF diffOf(stagedChanges[i]) = ""
          THEN << >>
          ELSE << [filePath |-> stagedChanges[i].fsPath,
                   fileName |-> BaseName(stagedChanges[i].fsPath),
                   diff |-> diffOf(stagedChanges[i]),
                   changeType |-> getChangeType(stagedChanges[i].status),
                   newContent |-> None] >>)
         \o stagedLoopStopsAtThrow(stagedChanges, i + 1)

\* The for loop of getStagedChanges from entry i on: a file whose diff call
\* throws is skipped, a file with an empty diff is not pushed.  The changes
\* pushed have no newContent property.
RECURSIVE stagedLoop(_, _)
stagedLoop(stagedChanges, i) ==
    IF i > Len(stagedChanges) THEN << >>
    ELSE (IF diffOf(stagedChanges[i]) \in {DiffThrows, ""}
          THEN << >>
          ELSE << [filePath |-> stagedChanges[i].fsPath,
                   fileName |-> BaseName(stagedChanges[i].fsPath),
                   diff |-> diffOf(stagedChanges[i]),
                   changeType |-> getChangeType(stagedChanges[i].status),
                   newContent |-> None] >>)
         \o stagedLoop(stagedChanges, i + 1)

\* The environment of getStagedChanges: which of its three lookups fails
\* first ("none" when a repository is found).
GitEnvs == {"none", "workspaceFolder", "gitExtension", "repository"}

\* The error getStagedChanges throws when lookup env fails.
gitError(env) ==
    CASE env = "workspaceFolder" -> "No workspace folder found"
      [] env = "gitExtension" -> "Git extension not found"
      [] env = "repository" -> "No git repository found for current workspace"

\* getStagedChanges with the test for a missing repository dropped.
getStagedChangesNoRepositoryTest(env, stagedChanges) ==
    IF env \in {"workspaceFolder", "gitExtension"}
    THEN [resolved |-> FALSE, error |-> gitError(env), changes |-> << >>]
    ELSE [resolved |-> TRUE, error |-> "none",
          changes |-> stagedLoop(stagedChanges, 1)]

\* getStagedChanges: the settled promise.
getStagedChanges(env, stagedChanges) ==
    IF env # "none"
    THEN [resolved |-> FALSE, error |-> gitError(env), changes |-> << >>]
    ELSE [resolved |-> TRUE, error |-> "none",
          changes |-> stagedLoop(stagedChanges, 1)]

\* ------------------------------------------------------------------------
\* HtmlUtils
\* ------------------------------------------------------------------------
\* A JavaScript value: a string is the sequence of its characters, an array
\* the sequence of its elements.
Value(type, text, num, items) ==
    [type |-> type, text |-> text, num |-> num, items |-> items]

StringValue(text) == Value("string", text, 0, << >>)
NumberValue(n) == Value("number", << >>, n, << >>)
BooleanValue(b) == Value("boolean", << >>, IF b THEN 1 ELSE 0, << >>)
ArrayValue(items) == Value("object", << >>, 0, items)
ObjectValue == Value("object", << >>, 1, << >>)
NullValue == Value("null", << >>, 0, << >>)
UndefinedValue == Value("undefined", << >>, 0, << >>)

Chars(str) ==
    CASE str = "&amp;" -> << "&", "a", "m", "p", ";" >>
      [] str = "&lt;" -> << "&", "l", "t", ";" >>
      [] str = "&gt;" -> << "&", "g", "t", ";" >>
      [] str = "&quot;" -> << "&", "q", "u", "o", "t", ";" >>
      [] str = "&#39;" -> << "&", "#", "3", "9", ";" >>
      [] str = "true" -> << "t", "r", "u", "e" >>
      [] str = "[object Object]" ->
            << "[", "o", "b", "j", "e", "c", "t", " ",
               "O", "b", "j", "e", "c", "t", "]" >>

DigitChars == << "0", "1", "2", "3", "4", "5", "6", "7", "8", "9" >>

\* The decimal digits of a natural number.
RECURSIVE NumberText(_)
NumberText(n) ==
    IF n < 10 THEN << DigitChars[n + 1] >>
    ELSE NumberText(n \div 10) \o << DigitChars[(n % 10) + 1] >>

\* value || '' takes the right side for null, undefined, 0, false and ''.
Falsy(value) ==
    \/ value.type \in {"null", "undefined"}
    \/ value.type \in {"number", "boolean"} /\ value.num = 0
    \/ value.type = "string" /\ value.text = << >>

\* String(value): an array is the texts of its elements joined by commas.
RECURSIVE ToText(_)
RECURSIVE JoinTexts(_, _)
ToText(value) ==
    CASE value.type = "string" -> value.text
      [] value.type = "number" -> NumberText(value.num)
      [] value.type = "boolean" ->
            IF value.num = 1 THEN Chars("true") ELSE << "f", "a", "l", "s", "e" >>
      [] value.type = "object" /\ value.num = 1 -> Chars("[object Object]")
      [] value.type = "object" -> JoinTexts(value.items, 1)
      [] OTHER -> << >>

JoinTexts(items, i) ==
    IF i > Len(items) THEN << >>
    ELSE ToText(items[i])
           \o (IF i < Len(items) THEN << "," >> ELSE << >>)
           \o JoinTexts(items, i + 1)

\* text.replace(/c/g, replacement)
RECURSIVE ReplaceAll(_, _, _)
ReplaceAll(text, c, replacement) ==
    IF text = << >> THEN << >>
    ELSE (IF Head(text) = c THEN replacement ELSE << Head(text) >>)
           \o ReplaceAll(Tail(text), c, replacement)

\* HtmlUtils.escape(text)
escape(value) ==
    IF value.type # "string"
    THEN ToText(IF Falsy(value) THEN StringValue(<< >>) ELSE value)
    ELSE ReplaceAll(
           ReplaceAll(
             ReplaceAll(
               ReplaceAll(
                 ReplaceAll(value.text, "&", Chars("&amp;")),
                 "<", Chars("&lt;")),
               ">", Chars("&gt;")),
             "\"", Chars("&quot;")),
           "'", Chars("&#39;"))

\* HtmlUtils.escapeCode(code)
escapeCode(value) ==
    IF value.type # "string" THEN << >>
    ELSE ReplaceAll(
           ReplaceAll(
             ReplaceAll(value.text, "&", Chars("&amp;")),
             "<", Chars("&lt;")),
           ">", Chars("&gt;"))

\* ------------------------------------------------------------------------
\* Webview components: IssueComponent, FileSection, TemplateRenderer
\* ------------------------------------------------------------------------
\* A text is a sequence of characters and of longer pieces that hold none of
\* the characters the functions below treat specially.  A rendered component
\* is a sequence of parts: markup written in the template literal, and text
\* inserted by ${...} from a value of the analysis.

\* value || fallback, for a fallback that is a text
OrText(value, fallback) ==
    IF Falsy(value) THEN StringValue(fallback) ELSE value

Markup(text) ==
    [kind |-> "markup", field |-> "", value |-> UndefinedValue, text |-> text]

Inserted(field, value, text) ==
    [kind |-> "text", field |-> field, value |-> value, text |-> text]

UpperCase(piece) ==
    CASE piece = "error" -> "ERROR"
      [] piece = "warning" -> "WARNING"
      [] piece = "info" -> "INFO"
      [] piece = "positive" -> "POSITIVE"
      [] piece = "a" -> "A"
      [] piece = "m" -> "M"
      [] piece = "p" -> "P"
      [] piece = "l" -> "L"
      [] piece = "t" -> "T"
      [] piece = "g" -> "G"
      [] piece = "q" -> "Q"
      [] piece = "u" -> "U"
      [] piece = "o" -> "O"
      [] OTHER -> piece

\* text.toUpperCase()
toUpperCase(text) == [k \in 1..Len(text) |-> UpperCase(text[k])]

\* fileName.split('.').pop()?.toLowerCase()
Extension(fileName) ==
    IF Falsy(fileName) THEN ""
    ELSE fileName.text[Len(fileName.text)]

\* HtmlUtils.detectLanguage: the language of the file extension; for another
\* extension the patterns tried on the code match none of the sampled
\* snippets and the result is 'text'.
detectLanguage(fileName, code) ==
    IF Falsy(fileName) /\ Falsy(code) THEN "text"
    ELSE CASE Extension(fileName) = "ts" -> "typescript"
           [] Extension(fileName) = "js" -> "javascript"
           [] Extension(fileName) = "tsx" -> "tsx"
           [] Extension(fileName) = "py" -> "python"
           [] OTHER -> "text"

\* HtmlUtils.applySyntaxHighlighting(code, language)
applySyntaxHighlighting(code, language) ==
    IF Falsy(code) THEN << >> ELSE escapeCode(code)

\* `:${lineNumber}` for a truthy lineNumber
displayLine(lineNumber) ==
    IF Falsy(lineNumber) THEN << >>
    ELSE << Markup(<< ":" >> \o ToText(lineNumber)) >>

\* HtmlUtils.createGoToCodeButton(fileName, filePath, lineNumber): the title
\* attribute takes ${fileName} as it is.
createGoToCodeButton(fileName, filePath, lineNumber) ==
    IF Falsy(fileName) THEN << >>
    ELSE << Markup(<< "<button class=\"go-to-code-btn\" onclick=\"goToCode('" >>),
            Inserted("filePath", filePath, escape(filePath)),
            Markup(<< "', " >>
                     \o ToText(IF Falsy(lineNumber) THEN NumberValue(0)
                               ELSE lineNumber)
                     \o << ")\" title=\"Open " >>),
            Inserted("fileName", fileName, ToText(fileName)) >>
           \o displayLine(lineNumber)
           \o << Markup(<< "\"><span class=\"go-to-code-icon\">-></span><span class=\"go-to-code-text\">" >>),
                 Inserted("fileName", fileName, escape(fileName)) >>
           \o displayLine(lineNumber)
           \o << Markup(<< "</span></button>" >>) >>

\* codeSnippetHtml of IssueComponent.render
codeSnippetHtml(issue, fileName, filePath) ==
    IF Falsy(issue.codeSnippet) THEN << >>
    ELSE LET language == detectLanguage(fileName, issue.codeSnippet)
         IN  << Markup(<< "<div class=\"code-block-container\"><div class=\"code-block-header\"><span class=\"code-language\">",
                          language, "</span>" >>) >>
               \o (IF Falsy(issue.lineNumber) THEN << >>
                   ELSE createGoToCodeButton(fileName, filePath,
                                             issue.lineNumber))
               \o << Markup(<< "</div><pre style=\"margin: 0\" class=\"code-block language-",
                               language, "\"><code class=\"language-",
                               language, "\">" >>),
                     Inserted("codeSnippet", issue.codeSnippet,
                              applySyntaxHighlighting(issue.codeSnippet,
                                                      language)),
                     Markup(<< "</code></pre></div>" >>) >>

\* suggestionHtml of IssueComponent.render
suggestionHtml(issue) ==
    IF Falsy(issue.suggestion) THEN << >>
    ELSE << Markup(<< "<div class=\"suggestion\"><strong>Suggestion:</strong> " >>),
            Inserted("suggestion", issue.suggestion, escape(issue.suggestion)),
            Markup(<< "</div>" >>) >>

\* goToCodeButton of IssueComponent.render: the button in the issue when
\* there is a line number and no code snippet
goToCodeButton(issue, fileName, filePath) ==
    IF Falsy(issue.codeSnippet) /\ ~Falsy(fileName) /\ ~Falsy(issue.lineNumber)
    THEN << Markup(<< "<div class=\"issue-actions\">" >>) >>
           \o createGoToCodeButton(fileName, filePath, issue.lineNumber)
           \o << Markup(<< "</div>" >>) >>
    ELSE << >>

\* `${fileIndex}-${issueIndex}`: the indexes count from 0.
issueId(fileIndex, issueIndex) ==
    NumberText(fileIndex) \o << "-" >> \o NumberText(issueIndex)

IssueOpen == "<div class=\"issue "

IssueIdAttribute == "\" data-issue-id=\""

\* IssueComponent.render(issue, fileIndex, issueIndex, fileName, filePath)
IssueComponentRender(issue, fileIndex, issueIndex, fileName, filePath) ==
    LET issueType == escape(OrText(issue.type, << "info" >>))
    IN  << Markup(<< IssueOpen >>),
           Inserted("type", issue.type, issueType),
           Markup(<< IssueIdAttribute >>),
           Markup(issueId(fileIndex, issueIndex)),
           Markup(<< "\"><div class=\"issue-header\"><div><h4 class=\"issue-title\">" >>),
           Inserted("title", issue.title,
                    escape(OrText(issue.title, << "No title" >>))),
           Markup(<< "</h4><p class=\"issue-description\">" >>),
           Inserted("description", issue.description,
                    escape(OrText(issue.description, << "No description" >>))),
           Markup(<< "</p></div><span class=\"issue-type " >>),
           Inserted("type", issue.type, issueType),
           Markup(<< "\">" >>),
           Inserted("type", issue.type, toUpperCase(issueType)),
           Markup(<< "</span></div><div class=\"issue-content\">" >>) >>
          \o codeSnippetHtml(issue, fileName, filePath)
          \o suggestionHtml(issue)
          \o goToCodeButton(issue, fileName, filePath)
          \o << Markup(<< "</div></div>" >>) >>

\* (file.issues || []).map(...).join('') from the issue at position j on
RECURSIVE issuesHtml(_, _, _)
issuesHtml(file, index, j) ==
    IF j > Len(file.issues) THEN << >>
    ELSE IssueComponentRender(file.issues[j], index, j - 1,
                              file.fileName, file.filePath)
           \o issuesHtml(file, index, j + 1)

FileSectionOpen == "<div class=\"file-section\" data-file-index=\""

\* FileSection.render(file, index)
FileSectionRender(file, index) ==
    << Markup(<< FileSectionOpen >>),
       Markup(NumberText(index)),
       Markup(<< "\"><div class=\"file-header\" onclick=\"toggleFileSection(" >>
                \o NumberText(index) \o << ")\">" >>),
       Inserted("fileName", file.fileName,
                escape(OrText(file.fileName, << "Unknown file" >>))),
       Markup(<< "<span class=\"toggle-icon\">v</span></div><div class=\"file-issues\">" >>) >>
      \o issuesHtml(file, index, 1)
      \o << Markup(<< "</div></div>" >>) >>

\* Array.isArray(value)
IsArray(value) == value.type = "object" /\ value.num = 0

NoFilesPlaceholder == "<div class=\"no-files\">No files to display</div>"

\* files.map((file, index) => FileSection.render(file, index)).join('')
\* from the file at position i on
RECURSIVE fileSections(_, _)
fileSections(items, i) ==
    IF i > Len(items) THEN << >>
    ELSE FileSectionRender(items[i], i - 1) \o fileSections(items, i + 1)

\* TemplateRenderer.renderFilesContent(files)
renderFilesContent(files) ==
    IF ~IsArray(files) THEN << Markup(<< NoFilesPlaceholder >>) >>
    ELSE fileSections(files.items, 1)

\* texts[lo] \o ... \o texts[hi], the join('') of an array of texts
RECURSIVE Join(_, _, _)
Join(texts, lo, hi) ==
    IF lo > hi THEN << >>
    ELSE IF lo = hi THEN texts[lo]
    ELSE Join(texts, lo, (lo + hi) \div 2)
           \o Join(texts, (lo + hi) \div 2 + 1, hi)

\* The text of a sequence of parts.
Flatten(parts) ==
    Join([k \in 1..Len(parts) |-> parts[k].text], 1, Len(parts))

\* (file.issues || []).filter(issue => issue.type === type).length
RECURSIVE CountIssueType(_, _, _)
CountIssueType(issues, type, j) ==
    IF j > Len(issues) THEN 0
    ELSE (IF issues[j].type = StringValue(<< type >>) THEN 1 ELSE 0)
            + CountIssueType(issues, type, j + 1)

\* files.reduce((acc, file) => acc + ..., 0)
RECURSIVE ReduceIssueType(_, _, _)
ReduceIssueType(items, type, i) ==
    IF i > Len(items) THEN 0
    ELSE CountIssueType(items[i].issues, type, 1)
            + ReduceIssueType(items, type, i + 1)

\* TemplateRenderer.calculateStats(analysis): analysis.files || [] is the
\* value itself when it is truthy, and files.reduce is not a function
\* unless that is an array.
calculateStatsThrows(analysis) ==
    ~Falsy(analysis.files) /\ ~IsArray(analysis.files)

calculateStats(analysis) ==
    LET items == IF Falsy(analysis.files) THEN << >> ELSE analysis.files.items
    IN  [filesCount |-> Len(items),
         errorsCount |-> ReduceIssueType(items, "error", 1),
         warningsCount |-> ReduceIssueType(items, "warning", 1),
         improvementsCount |-> ReduceIssueType(items, "positive", 1)]

\* The number of dollar signs in a row that end right before position k.
RECURSIVE DollarsBefore(_, _)
DollarsBefore(replacement, k) ==
    IF k = 1 \/ replacement[k - 1] # "$" THEN 0
    ELSE 1 + DollarsBefore(replacement, k - 1)

\* Position k of the replacement text begins one of the patterns $$, $&,
\* $` and $' (patterns are read from left to right).
BeginsPattern(replacement, k) ==
    /\ replacement[k] = "$"
    /\ k < Len(replacement)
    /\ replacement[k + 1] \in {"$", "&", "`", "'"}
    /\ DollarsBefore(replacement, k) % 2 = 0

\* The replacement text of String.prototype.replace for the match at
\* position i of text: $$ is a dollar sign, $& the match, $` the text
\* before the match and $' the text after it.
expandReplacement(replacement, text, i) ==
    IF \A k \in 1..Len(replacement) : replacement[k] # "$" THEN replacement
    ELSE
    Join([k \in 1..Len(replacement) |->
            IF BeginsPattern(replacement, k)
            THEN CASE replacement[k + 1] = "$" -> << "$" >>
                   [] replacement[k + 1] = "&" -> << text[i] >>
                   [] replacement[k + 1] = "`" -> SubSeq(text, 1, i - 1)
                   [] replacement[k + 1] = "'" -> SubSeq(text, i + 1, Len(text))
            ELSE IF k > 1 /\ BeginsPattern(replacement, k - 1) THEN << >>
            ELSE << replacement[k] >>],
         1, Len(replacement))

\* text.replace(/pattern/g, replacement): pattern is the set of the pieces
\* the regular expression matches.
replace(text, pattern, replacement) ==
    IF \A i \in 1..Len(text) : text[i] \notin pattern THEN text
    ELSE Join([i \in 1..Len(text) |->
                 IF text[i] \in pattern
                 THEN expandReplacement(replacement, text, i)
                 ELSE << text[i] >>],
              1, Len(text))

\* The placeholders in the order in which processMainTemplate replaces them,
\* each with the forms its regular expression matches that are used here.
Placeholders ==
    << [pattern |-> {"<analysis_summary />", "<analysis_summary/>"},
        value |-> "summary"],
       [pattern |-> {"<files_count />", "<files_count/>"},
        value |-> "filesCount"],
       [pattern |-> {"<errors_count />", "<errors_count/>"},
        value |-> "errorsCount"],
       [pattern |-> {"<warnings_count />", "<warnings_count/>"},
        value |-> "warningsCount"],
       [pattern |-> {"<improvements_count />", "<improvements_count/>"},
        value |-> "improvementsCount"],
       [pattern |-> {"<files_content />", "<files_content/>"},
        value |-> "filesContent"],
       [pattern |-> {"{{ANALYSIS_SUMMARY}}", "{{ ANALYSIS_SUMMARY }}"},
        value |-> "summary"],
       [pattern |-> {"{{FILES_COUNT}}", "{{ FILES_COUNT }}"},
        value |-> "filesCount"],
       [pattern |-> {"{{ERRORS_COUNT}}", "{{ ERRORS_COUNT }}"},
        value |-> "errorsCount"],
       [pattern |-> {"{{WARNINGS_COUNT}}", "{{ WARNINGS_COUNT }}"},
        value |-> "warningsCount"],
       [pattern |-> {"{{IMPROVEMENTS_COUNT}}", "{{ IMPROVEMENTS_COUNT }}"},
        value |-> "improvementsCount"],
       [pattern |-> {"{{FILES_CONTENT}}", "{{ FILES_CONTENT }}"},
        value |-> "filesContent"],
       [pattern |-> {"<!--ANALYSIS_SUMMARY-->", "<!-- ANALYSIS_SUMMARY -->"},
        value |-> "summary"],
       [pattern |-> {"<!--FILES_COUNT-->", "<!-- FILES_COUNT -->"},
        value |-> "filesCount"],
       [pattern |-> {"<!--ERRORS_COUNT-->", "<!-- ERRORS_COUNT -->"},
        value |-> "errorsCount"],
       [pattern |-> {"<!--WARNINGS_COUNT-->", "<!-- WARNINGS_COUNT -->"},
        value |-> "warningsCount"],
       [pattern |-> {"<!--IMPROVEMENTS_COUNT-->", "<!-- IMPROVEMENTS_COUNT -->"},
        value |-> "improvementsCount"],
       [pattern |-> {"<!--FILES_CONTENT-->", "<!-- FILES_CONTENT -->"},
        value |-> "filesContent"] >>

\* The values the placeholders stand for.
templateValues(analysis) ==
    LET stats == calculateStats(analysis)
    IN  [summary |->
            escape(OrText(analysis.summary, << "No summary available" >>)),
         filesCount |-> NumberText(stats.filesCount),
         errorsCount |-> NumberText(stats.errorsCount),
         warningsCount |-> NumberText(stats.warningsCount),
         improvementsCount |-> NumberText(stats.improvementsCount),
         filesContent |-> Flatten(renderFilesContent(analysis.files))]

\* The chain of replace calls from the n-th on.
RECURSIVE replaceChain(_, _, _)
replaceChain(text, values, n) ==
    IF n > Len(Placeholders) THEN text
    ELSE replaceChain(replace(text, Placeholders[n].pattern,
                              values[Placeholders[n].value]),
                      values, n + 1)

\* A call that threw.
Threw == [threw |-> TRUE, filesContent |-> << >>, html |-> << >>]

\* TemplateRenderer.processMainTemplate(template, analysis): the parts
\* renderFilesContent returned and the text returned.
processMainTemplate(template, analysis) ==
    IF calculateStatsThrows(analysis) THEN Threw
    ELSE [threw |-> FALSE,
          filesContent |-> renderFilesContent(analysis.files),
          html |-> replaceChain(template, templateValues(analysis), 1)]

\* The template of getMainTemplate: its markup between the placeholders is
\* one piece each.
MainTemplate ==
    << "<!DOCTYPE html>...<h3>Summary</h3><p>",
       "<analysis_summary />",
       "</p><div class=\"stats-grid\">...",
       "<files_count />",
       "...Files...",
       "<errors_count />",
       "...Errors...",
       "<warnings_count />",
       "...Warnings...",
       "<improvements_count />",
       "...Improvements...</div></div><div class=\"files-container\">",
       "<files_content />",
       "</div><div class=\"actions-bar\">...</div><script>...</script></body></html>" >>

\* ------------------------------------------------------------------------
\* State
\* ------------------------------------------------------------------------
VARIABLES
    anPc,        \* SpecAnalyzer: "ready" before the call, "done" once settled
    anChanges,   \* SpecAnalyzer: the changes passed to analyzeChanges
    anLm,        \* SpecAnalyzer: what the Language Model API does
    anResult,    \* SpecAnalyzer: the settled promise of analyzeChanges
    gitPc,       \* SpecGit: "ready" before the call, "done" once settled
    gitResult,   \* SpecGit: the settled promise of getStagedChanges
    gitEnv,      \* which lookup of getStagedChanges fails first, or "none"
    indexChanges, \* repository.state.indexChanges
    currentPanel, \* CodeReviewPanel.currentPanel: 0 (undefined) or a panel
    panels,      \* the panels created so far, by number
    reviews,     \* the getStagedChanges promises startReview is awaiting
    reviewsStarted, \* number of startReview invocations so far
    updates,     \* the _update calls awaiting analyzeChanges
    inbox,       \* messages posted by webviews, not yet handled
    messagesPosted, \* number of messages posted so far
    triggered,   \* the calls the message handler made in the last step
    shown,       \* the notifications shown in the last step
    dialogs,     \* reports of _exportReport calls awaiting the save dialog
    exported,    \* the save dialog's outcome and the file written in the last step
    editor,      \* the active text editor: document, cursor line and column
    htmlPc,      \* SpecEscape: "ready", "done" after escape, "again" after a second
    htmlInput,   \* SpecEscape: the value passed to HtmlUtils.escape
    htmlOutput   \* SpecEscape: the texts returned so far

anVars == << anPc, anChanges, anLm, anResult >>

gitVars == << gitPc, gitResult >>

repoVars == << gitEnv, indexChanges >>

extVars ==
    << currentPanel, panels, reviews, reviewsStarted, updates,
       inbox, messagesPosted, triggered, shown, dialogs, exported, editor >>

htmlVars == << htmlPc, htmlInput, htmlOutput >>

vars == << anVars, gitVars, repoVars, extVars, htmlVars >>

\* ------------------------------------------------------------------------
\* Inputs
\* ------------------------------------------------------------------------
\* The contents of at most n lines.
Contents(n) == UNION { [1..k -> SampleLines] : k \in 1..n }

\* The i-th change of a list has at most MaxLines - i + 1 lines, and at
\* least one.
MaxLinesOf(i) == Max(1, MaxLines - i + 1)

\* A CodeChange as getStagedChanges builds it has no newContent property;
\* one with newContent is what analyzeFileContent expects.
CodeChange(fileName, newContent) ==
    [filePath |-> FsPath(fileName), fileName |-> fileName,
     diff |-> "@@ staged", changeType |-> "modified",
     newContent |-> newContent]

\* The lists of k changes: the i-th change is for the i-th file.
RECURSIVE ChangeListsOf(_)
ChangeListsOf(k) ==
    IF k = 0 THEN { << >> }
    ELSE { Append(changes, CodeChange(FileNames[k], c)) :
             changes \in ChangeListsOf(k - 1),
             c \in {None} \cup { Some(x) : x \in Contents(MaxLinesOf(k)) } }

ResponseFile(fileName, issues) ==
    [fileName |-> fileName, filePath |-> FsPath(fileName), issues |-> issues]

SampleResponses ==
    { ParseError,
      ParsedNull,
      ParsedObject(None, None),
      ParsedObject(
        Some([overallScore |-> 8, criticalIssues |-> 1,
              warnings |-> MissingNum, suggestions |-> 2]),
        Some(<< ResponseFile("a.ts",
                  << Issue("error", "Bug", "Off by one", 3, None, None) >>) >>)),
      ParsedObject(
        Some([overallScore |-> 0, criticalIssues |-> 0,
              warnings |-> 1, suggestions |-> MissingNum]),
        Some(<< ResponseFile("a.ts",
                  << Issue("critical", Absent, Absent, NoLine, None, None) >>),
                ResponseFile("b.js", << >>),
                ResponseFile("zz.py",
                  << Issue("warning", "Style", "Naming", 1, None,
                           Some("Rename")) >>) >>)) }

LmOutcomes ==
    { Lm(k, ParseError) : k \in LmFailureKinds \cup {"streamThrows"} }
        \cup { Lm("responded", r) : r \in SampleResponses }

\* ------------------------------------------------------------------------
\* SpecAnalyzer: analyzeChanges applied to every bounded input
\* ------------------------------------------------------------------------
AnIdle ==
    /\ anPc = "idle"
    /\ anChanges = << >>
    /\ anLm = Lm("noApi", ParseError)
    /\ anResult = Rejected

GitIdle ==
    /\ gitPc = "idle"
    /\ gitResult = getStagedChanges("workspaceFolder", << >>)

RepoIdle ==
    /\ gitEnv = "workspaceFolder"
    /\ indexChanges = << >>

HtmlIdle ==
    /\ htmlPc = "idle"
    /\ htmlInput = NullValue
    /\ htmlOutput = << >>

\* The extension right after activate(): no panel, nothing in flight.
ExtIdle ==
    /\ currentPanel = 0
    /\ panels = << >>
    /\ reviews = << >>
    /\ reviewsStarted = 0
    /\ updates = << >>
    /\ inbox = << >>
    /\ messagesPosted = 0
    /\ triggered = << >>
    /\ shown = << >>
    /\ dialogs = << >>
    /\ exported = [outcome |-> "none", file |-> None]
    /\ editor = [file |-> << >>, line |-> 0, col |-> 0]

\* startReview passes only non-empty lists on to the analysis.
AnInit ==
    /\ anPc = "ready"
    /\ \E k \in 1..MaxChanges : anChanges \in ChangeListsOf(k)
    /\ anLm \in LmOutcomes
    /\ anResult = Rejected
    /\ GitIdle
    /\ RepoIdle
    /\ ExtIdle
    /\ HtmlIdle

AnalyzeChanges ==
    /\ anPc = "ready"
    /\ anResult' = analyzeChanges(anChanges, anLm)
    /\ anPc' = "done"
    /\ UNCHANGED << anChanges, anLm, gitVars, repoVars, extVars, htmlVars >>

AnNext == AnalyzeChanges

SpecAnalyzer == AnInit /\ [][AnNext]_vars

\* ------------------------------------------------------------------------
\* SpecRules: the rule-based analysis applied to contents that hold every
\* text analyzeFileContent looks for
\* ------------------------------------------------------------------------
RuleLines ==
    { Line({}, FALSE),
      Line({"console.log", "eval("}, TRUE),
      Line({"console.log", "// TODO: Remove"}, FALSE),
      Line({"FIXME", "innerHTML ="}, FALSE),
      Line({"async ", "any"}, FALSE),
      Line({"try {", "// eslint-disable"}, FALSE),
      Line({".catch(", "console.log"}, FALSE) }

\* The contents of at most n lines of RuleLines.
RuleContents(n) == UNION { [1..k -> RuleLines] : k \in 1..n }

\* The line of a change after the first.
OtherRuleLines ==
    { Line({}, FALSE),
      Line({"console.log", "eval("}, TRUE),
      Line({"async ", "any"}, FALSE) }

\* The lists of k changes that have a newContent: the first has at most
\* MaxRuleLines lines, the others have one line.
RECURSIVE RuleChangeListsOf(_)
RuleChangeListsOf(k) ==
    IF k = 0 THEN { << >> }
    ELSE { Append(changes, CodeChange(FileNames[k], Some(c))) :
             changes \in RuleChangeListsOf(k - 1),
             c \in IF k = 1 THEN RuleContents(MaxRuleLines)
                   ELSE { << line >> : line \in OtherRuleLines } }

\* The Language Model API is absent: analyzeChanges runs
\* performRuleBasedAnalysis.
RulesInit ==
    /\ anPc = "ready"
    /\ \E k \in 1..MaxChanges : anChanges \in RuleChangeListsOf(k)
    /\ anLm = Lm("noApi", ParseError)
    /\ anResult = Rejected
    /\ GitIdle
    /\ RepoIdle
    /\ ExtIdle
    /\ HtmlIdle

\* A line is added at the end of the first file and the changes are
\* analyzed again.
AnalyzeAgain(line) ==
    /\ anPc = "done"
    /\ Len(anChanges[1].newContent[1]) < MaxRuleLines
    /\ anChanges' = [anChanges EXCEPT
                        ![1].newContent = Some(Append(@[1], line))]
    /\ anResult' = analyzeChanges(anChanges', anLm)
    /\ UNCHANGED << anPc, anLm, gitVars, repoVars, extVars, htmlVars >>

RulesNext ==
    \/ AnalyzeChanges
    \/ \E line \in RuleLines : AnalyzeAgain(line)

SpecRules == RulesInit /\ [][RulesNext]_vars

\* ------------------------------------------------------------------------
\* SpecGit: getStagedChanges applied to every bounded repository state
\* ------------------------------------------------------------------------
Statuses == {0, 1, 2, 4, 6, 8, 16}

IndexEntries(name) ==
    { IndexChange(name, st, d1, d2) :
        st \in Statuses,
        d1 \in {"", "@@ staged", DiffThrows},
        d2 \in {"", "@@ head", DiffThrows} }

\* The indexes of k files: the i-th entry is for the i-th file.
RECURSIVE IndexListsOf(_)
IndexListsOf(k) ==
    IF k = 0 THEN { << >> }
    ELSE { Append(l, e) :
             l \in IndexListsOf(k - 1), e \in IndexEntries(FileNames[k]) }


\* Without a workspace folder, the Git extension or a repository there is no
\* index to read.
GitInit ==
    /\ gitPc = "ready"
    /\ gitEnv \in GitEnvs
    /\ \E k \in 0..MaxStaged :
          indexChanges \in (IF gitEnv = "none" THEN IndexListsOf(k)
                            ELSE { << >> })
    /\ gitResult = getStagedChanges("workspaceFolder", << >>)
    /\ AnIdle
    /\ ExtIdle
    /\ HtmlIdle

GetStagedChanges ==
    /\ gitPc = "ready"
    /\ gitResult' = getStagedChanges(gitEnv, indexChanges)
    /\ gitPc' = "done"
    /\ UNCHANGED << repoVars, anVars, extVars, htmlVars >>

GitNext == GetStagedChanges

SpecGit == GitInit /\ [][GitNext]_vars

\* ------------------------------------------------------------------------
\* SpecEscape: HtmlUtils.escape applied to every bounded value
\* ------------------------------------------------------------------------
TextChars == {"&", "<", ">", "\"", "'", "a", ";"}

\* The texts of at most n characters.
Texts(n) == UNION { [1..k -> TextChars] : k \in 0..n }

\* Strings, and values of the other types: null, undefined, numbers,
\* booleans, an object, and arrays of up to two one-character strings.
EscapeInputs ==
    { StringValue(t) : t \in Texts(MaxText) }
      \cup { NullValue, UndefinedValue, ObjectValue,
             NumberValue(0), NumberValue(7), NumberValue(42),
             BooleanValue(TRUE), BooleanValue(FALSE) }
      \cup { ArrayValue(items) :
               items \in UNION { [1..k -> { StringValue(t) : t \in Texts(1) }] :
                                   k \in 0..2 } }

EscapeInit ==
    /\ htmlPc = "ready"
    /\ htmlInput \in EscapeInputs
    /\ htmlOutput = << >>
    /\ AnIdle
    /\ GitIdle
    /\ RepoIdle
    /\ ExtIdle

\* escape(value)
Escape ==
    /\ htmlPc = "ready"
    /\ htmlOutput' = << escape(htmlInput) >>
    /\ htmlPc' = "done"
    /\ UNCHANGED << htmlInput, anVars, gitVars, repoVars, extVars >>

\* escape(escape(value))
EscapeAgain ==
    /\ htmlPc = "done"
    /\ htmlOutput' = Append(htmlOutput, escape(StringValue(htmlOutput[1])))
    /\ htmlPc' = "again"
    /\ UNCHANGED << htmlInput, anVars, gitVars, repoVars, extVars >>

EscapeNext == Escape \/ EscapeAgain

SpecEscape == EscapeInit /\ [][EscapeNext]_vars

\* ------------------------------------------------------------------------
\* SpecRender: getMainTemplate applied to every bounded analysis
\* ------------------------------------------------------------------------
RenderIssue(type, title, description, lineNumber, codeSnippet, suggestion) ==
    [type |-> type, title |-> title, description |-> description,
     lineNumber |-> lineNumber, codeSnippet |-> codeSnippet,
     suggestion |-> suggestion]

\* Issues as the rule-based checks and a model response give them: with and
\* without a line number, a code snippet and a suggestion, with texts that
\* hold markup characters, a $-sequence and a placeholder, and one without
\* type, title and description.
RenderIssues ==
    { RenderIssue(StringValue(<< "error" >>), StringValue(<< "T" >>),
                  StringValue(<< "D" >>), NumberValue(3),
                  StringValue(<< "x", "<", "y", "&", "'" >>), UndefinedValue),
      RenderIssue(StringValue(<< "warning" >>), StringValue(<< "$", "&" >>),
                  StringValue(<< "{{FILES_COUNT}}" >>), UndefinedValue,
                  UndefinedValue, StringValue(<< "s", "\"" >>)),
      RenderIssue(UndefinedValue, UndefinedValue, UndefinedValue,
                  NumberValue(7), UndefinedValue, UndefinedValue),
      RenderIssue(StringValue(<< "<", "a", ">" >>), StringValue(<< "plain" >>),
                  StringValue(<< "plain" >>), UndefinedValue,
                  UndefinedValue, UndefinedValue) }

RenderFileNames ==
    << { StringValue(<< "a", ".", "ts" >>),
         StringValue(<< "\"", "<", "b", ">", ".", "js" >>),
         StringValue(<< "{{ERRORS_COUNT}}", ".", "py" >>) },
       { StringValue(<< "b", ".", "js" >>) },
       { StringValue(<< "c", ".", "tsx" >>) } >>

\* The first file of a report has at most MaxIssues issues, the others at
\* most one.
MaxIssuesOf(i) == IF i = 1 THEN MaxIssues ELSE 1

IssueLists(n) == UNION { [1..k -> RenderIssues] : k \in 0..n }

RenderFile(fileName, issues) ==
    [fileName |-> fileName,
     filePath |-> StringValue(<< "/", "ws", "/" >> \o fileName.text),
     issues |-> issues]

\* The lists of k files.
RECURSIVE RenderFileLists(_)
RenderFileLists(k) ==
    IF k = 0 THEN { << >> }
    ELSE { Append(files, RenderFile(name, issues)) :
             files \in RenderFileLists(k - 1),
             name \in RenderFileNames[k],
             issues \in IssueLists(MaxIssuesOf(k)) }

\* The files property of a parsed model response: absent, an object, a
\* text, or a list of files; the rule-based reports have a list.
ParsedFiles(k) ==
    IF k = 0
    THEN { UndefinedValue, ObjectValue, StringValue(<< "none" >>),
           ArrayValue(<< >>) }
    ELSE { ArrayValue(files) : files \in RenderFileLists(k) }

\* files: parsed.files || [] of parseLLMResponse; summary is an object.
AnalysisOf(parsedFiles) ==
    [summary |-> ObjectValue,
     files |-> IF Falsy(parsedFiles) THEN ArrayValue(<< >>) ELSE parsedFiles]

RenderInit ==
    /\ htmlPc = "ready"
    /\ \E k \in 0..MaxFiles :
          \E parsedFiles \in ParsedFiles(k) :
              htmlInput = AnalysisOf(parsedFiles)
    /\ htmlOutput = << >>
    /\ AnIdle
    /\ GitIdle
    /\ RepoIdle
    /\ ExtIdle

\* getMainTemplate(analysis)
RenderMain ==
    /\ htmlPc = "ready"
    /\ htmlOutput' = << processMainTemplate(MainTemplate, htmlInput) >>
    /\ htmlPc' = "done"
    /\ UNCHANGED << htmlInput, anVars, gitVars, repoVars, extVars >>

RenderNext == RenderMain

SpecRender == RenderInit /\ [][RenderNext]_vars

\* ------------------------------------------------------------------------
\* Webview content and the messages its scripts post
\* ------------------------------------------------------------------------
getLoadingTemplate == [view |-> "loading", report |-> None]

\* The error view; the text of the error message is not modelled.
getErrorTemplate == [view |-> "error", report |-> None]

\* The report view rendered from an analysis.
getMainTemplate(analysis) == [view |-> "main", report |-> Some(analysis)]

\* window.ANALYSIS_DATA in a loaded view: no template and no placeholder of
\* processMainTemplate writes a script that assigns it.
windowAnalysisData(html) == None

\* analysisData of the report view's script once DOMContentLoaded has run:
\* initialised to null and replaced only by a truthy window.ANALYSIS_DATA.
analysisData(html) ==
    IF windowAnalysisData(html) # None THEN windowAnalysisData(html) ELSE None

NoPath == << >>

Message(command, type, report, fileName, lineNumber) ==
    [command |-> command, type |-> type, report |-> report,
     fileName |-> fileName, lineNumber |-> lineNumber]

\* exportReport() of the report view
exportReportMessage(html) ==
    Message("exportReport", Absent, analysisData(html), NoPath, 0)

\* refreshAnalysis() of the report view, retryAnalysis() of the error view
refreshAnalysisMessage == Message("refreshAnalysis", Absent, None, NoPath, 0)

\* openSettings() of the error view
openSettingsMessage == Message("openSettings", Absent, None, NoPath, 0)

\* goToCode(fileName, lineNumber) of the report view
goToCodeMessage(fileName, lineNumber) ==
    Message(Absent, "goToCode", None, fileName, lineNumber)

\* The go-to-code buttons of a report view: createGoToCodeButton is rendered
\* for an issue with a truthy lineNumber and calls goToCode with the file's
\* filePath and that line number.
goToCodeButtons(html) ==
    IF html.report = None THEN {}
    ELSE LET report == html.report[1]
         IN  UNION { { goToCodeMessage(report.files[i].filePath,
                                       report.files[i].issues[j].lineNumber) :
                         j \in { k \in 1..Len(report.files[i].issues) :
                                   report.files[i].issues[k].lineNumber # NoLine } } :
                     i \in 1..Len(report.files) }

\* Other messages a webview script may post: goToCode as the earlier script
\* revision sends it (in command, here with a type as well), with a
\* workspace-relative path; a message with an empty command and a type; and
\* a message the handler has no case for.
OtherMessages ==
    { Message("goToCode", "openSettings", None, << "a.ts" >>, 2),
      Message("", "refreshAnalysis", None, NoPath, 0),
      Message("filterIssues", "exportReport", None, NoPath, 0) }

\* ------------------------------------------------------------------------
\* CodeReviewPanel
\* ------------------------------------------------------------------------
\* message.command || message.type
messageKey(message) ==
    IF message.command # Absent /\ message.command # ""
    THEN message.command
    ELSE message.type

\* The switch of onDidReceiveMessage with the break of the first goToCode
\* case missing, so that it falls through into the refreshAnalysis case.
onDidReceiveMessageFallsThrough(message) ==
    CASE messageKey(message) = "exportReport" -> << "_exportReport" >>
      [] messageKey(message) = "goToCode" ->
            << "codeReview.goToLine", "codeReview.startReview" >>
      [] messageKey(message) = "refreshAnalysis" -> << "codeReview.startReview" >>
      [] messageKey(message) = "openSettings" ->
            << "workbench.action.openSettings" >>
      [] OTHER -> << >>

\* The switch of onDidReceiveMessage: the calls it makes for a message.  The
\* second goToCode case (this._goToCode) is never reached.
onDidReceiveMessage(message) ==
    CASE messageKey(message) = "exportReport" -> << "_exportReport" >>
      [] messageKey(message) = "goToCode" -> << "codeReview.goToLine" >>
      [] messageKey(message) = "refreshAnalysis" -> << "codeReview.startReview" >>
      [] messageKey(message) = "openSettings" ->
            << "workbench.action.openSettings" >>
      [] OTHER -> << >>

\* Assigning webview.html.  The setter of a disposed webview throws and
\* nothing is displayed; that the assignment was made is recorded.
setHtml(panel, html) ==
    IF panel.disposed THEN [panel EXCEPT !.assignedAfterDispose = TRUE]
    ELSE [panel EXCEPT !.html = html]

\* The panel as the constructor leaves it: _update has set the loading view,
\* and the two listeners are registered in _disposables.  The field changes
\* records the argument of the latest _update call for the panel.
NewPanel ==
    [disposed |-> FALSE, html |-> getLoadingTemplate, reveals |-> 0,
     disposables |-> 2, changes |-> << >>, assignedAfterDispose |-> FALSE]

\* The panel once dispose() has run: the webview is gone with its content,
\* and the listeners in _disposables are disposed.
DisposedPanel ==
    [disposed |-> TRUE, html |-> [view |-> "disposed", report |-> None],
     reveals |-> 0, disposables |-> 0, changes |-> << >>,
     assignedAfterDispose |-> FALSE]

\* WebviewPanel.dispose() of the editor, which also runs when the user
\* closes the panel: it does nothing for a disposed panel, and else marks the
\* panel disposed, drops the webview's content and fires onDidDispose, whose
\* listener, while registered, calls dispose() of the CodeReviewPanel.
RECURSIVE dispose(_)
webviewPanelDispose(panel) ==
    IF panel.disposed THEN panel
    ELSE LET closed == [DisposedPanel EXCEPT !.disposables = panel.disposables]
         IN  IF closed.disposables > 0 THEN dispose(closed) ELSE closed

\* dispose() with the loop over _disposables dropped.
disposeKeepsListeners(panel) == webviewPanelDispose(panel)

\* dispose() of the CodeReviewPanel: this._panel.dispose(), then every
\* entry of _disposables is popped and disposed.  (currentPanel is cleared
\* by the action that runs it.)
dispose(panel) == [webviewPanelDispose(panel) EXCEPT !.disposables = 0]

\* _update with the catch block dropped: a rejected analysis leaves the
\* loading view.
settledHtmlNoCatch(result) ==
    IF result.resolved THEN getMainTemplate(result.report[1])
    ELSE getLoadingTemplate

\* The view _update assigns once analyzeChanges has settled.
settledHtml(result) ==
    IF result.resolved THEN getMainTemplate(result.report[1])
    ELSE getErrorTemplate

\* createOrShow with the test of currentPanel dropped.
panelToShowNone(cur) == 0

\* The panel createOrShow reveals (0: none, a new one is created).
panelToShow(cur) == cur

\* createOrShow(extensionUri, changes)
createOrShow(changes) ==
    IF panelToShow(currentPanel) # 0
    THEN /\ panels' = [panels EXCEPT ![currentPanel] =
                          [setHtml(@, getLoadingTemplate)
                              EXCEPT !.reveals = @ + 1, !.changes = changes]]
         /\ updates' = Append(updates,
                              [panel |-> currentPanel, changes |-> changes])
         /\ UNCHANGED currentPanel
    ELSE /\ panels' = Append(panels, [NewPanel EXCEPT !.changes = changes])
         /\ currentPanel' = Len(panels) + 1
         /\ updates' = Append(updates,
                              [panel |-> Len(panels) + 1, changes |-> changes])

\* ------------------------------------------------------------------------
\* Commands registered by activate()
\* ------------------------------------------------------------------------
\* startReview with the test for an empty list dropped.
startReviewBranchNoEmptyTest(staged) ==
    IF ~staged.resolved THEN "error" ELSE "createOrShow"

\* The text of the error message in startReview's catch: the template
\* literal appends String(error), "Error: " followed by the error's message.
startReviewFailure(staged) ==
    << "Failed to start code review: ", "Error: ", staged.error >>

\* The branch startReview takes once getStagedChanges has settled.
startReviewBranch(staged) ==
    IF ~staged.resolved THEN "error"
    ELSE IF Len(staged.changes) = 0 THEN "noChanges"
    ELSE "createOrShow"

\* vscode.Uri.joinPath(workspaceFolder.uri, filePath): the segments of
\* filePath are appended to the folder's, also when filePath is absolute.
joinPath(base, filePath) == base \o filePath

WorkspaceUri == << "ws" >>

\* The files that exist in the workspace folder.
WorkspaceFiles == { FsPath(FileNames[i]) : i \in 1..Len(FileNames) }

Notify(text) == << text >>

\* A step that shows no notification.
Silent == << >>

\* No save dialog settled in a step.
NoExport == [outcome |-> "none", file |-> None]

\* JSON.stringify(value, null, indent): the text for null is "null".
JsonStringify(value, indent) ==
    IF value = None THEN << "null" >> ELSE << "json", indent, value[1] >>

\* _exportReport(report) up to its await of the save dialog.
exportReportBegin(report) ==
    IF gitEnv = "workspaceFolder"
    THEN /\ shown' = Notify("No workspace folder found")
         /\ UNCHANGED dialogs
    ELSE /\ dialogs' = Append(dialogs, report)
         /\ shown' = Silent

\* The file _exportReport writes with `if (uri)` dropped: a cancelled dialog
\* writes as well.
exportedFileNoUriTest(report, outcome) ==
    IF outcome \in {"saved", "cancelled"}
    THEN Some(JsonStringify(report, 2)) ELSE None

\* The file _exportReport writes once the save dialog has settled: none when
\* the user cancelled or the write failed.
exportedFile(report, outcome) ==
    IF outcome = "saved" THEN Some(JsonStringify(report, 2)) ELSE None

\* What git.openChange and the fallback of the second revision do.
GitOpenOutcomes == {"opened", "throws", "nothing"}

\* codeReview.goToLine(filePath, lineNumber) as the revision with
\* git.openChange implements it (part_001): the file is shown by
\* git.openChange or, when that throws, by the fallback, and no cursor is
\* placed.  For a missing file git.openChange either throws, and then the
\* fallback throws too, or does nothing.
goToLineOpenChange(filePath, lineNumber, gitOutcome) ==
    LET absolutePath == joinPath(WorkspaceUri, filePath)
    IN  IF gitEnv = "workspaceFolder"
        THEN /\ shown' = Notify("No workspace folder found")
             /\ UNCHANGED editor
        ELSE IF absolutePath \notin WorkspaceFiles
        THEN /\ shown' = IF gitOutcome = "throws"
                         THEN Notify("Could not open file")
                         ELSE Silent
             /\ UNCHANGED editor
        ELSE /\ editor' = IF editor.file = absolutePath THEN editor
                          ELSE [file |-> absolutePath, line |-> 0, col |-> 0]
             /\ shown' = Silent

\* codeReview.goToLine(filePath, lineNumber) as the revision that opens the
\* document itself implements it (part_000): the cursor is placed at line
\* max(0, lineNumber - 1), column 0.
goToLineCommand(filePath, lineNumber) ==
    LET absolutePath == joinPath(WorkspaceUri, filePath)
    IN  IF gitEnv = "workspaceFolder"
        THEN /\ shown' = Notify("No workspace folder found")
             /\ UNCHANGED editor
        ELSE IF absolutePath \notin WorkspaceFiles
        THEN /\ shown' = Notify("Could not open file")
             /\ UNCHANGED editor
        ELSE /\ editor' = [file |-> absolutePath,
                           line |-> Max(0, lineNumber - 1), col |-> 0]
             /\ shown' = Silent

\* ------------------------------------------------------------------------
\* Spec: the running extension
\* ------------------------------------------------------------------------
\* A response with an issue that has a line number.
ReviewResponse ==
    ParsedObject(
      Some([overallScore |-> 8, criticalIssues |-> 1,
            warnings |-> MissingNum, suggestions |-> 2]),
      Some(<< ResponseFile("a.ts",
                << Issue("error", "Bug", "Off by one", 3, None, None) >>) >>))

ExtLmOutcomes ==
    { Lm("noApi", ParseError),
      Lm("responded", ParseError),
      Lm("responded", ReviewResponse) }

\* Staged files as a running session sees them: nothing staged, one file
\* staged, two files staged.
ExtIndexLists ==
    { << >>,
      << IndexChange(FileNames[1], 1, "@@ staged", "@@ head") >>,
      << IndexChange(FileNames[1], 1, "@@ staged", "@@ head"),
         IndexChange(FileNames[2], 1, "@@ staged", "@@ head") >> }

Init ==
    /\ gitEnv \in GitEnvs
    /\ indexChanges \in (IF gitEnv = "none" THEN ExtIndexLists ELSE { << >> })
    /\ ExtIdle
    /\ AnIdle
    /\ GitIdle
    /\ HtmlIdle

RemoveAt(seq, i) ==
    [k \in 1..(Len(seq) - 1) |-> IF k < i THEN seq[k] ELSE seq[k + 1]]

LivePanels == { p \in 1..Len(panels) : ~panels[p].disposed }

\* codeReview.startReview up to its await: getStagedChanges is called.
StartReview ==
    /\ reviewsStarted < MaxReviews
    /\ reviewsStarted' = reviewsStarted + 1
    /\ reviews' = Append(reviews, getStagedChanges(gitEnv, indexChanges))

\* The user runs the codeReview.startReview command.
RunStartReview ==
    /\ StartReview
    /\ UNCHANGED << anVars, htmlVars, gitVars, repoVars, currentPanel,
                    panels, updates, inbox, messagesPosted, dialogs,
                    editor >>
    /\ triggered' = << >>
    /\ exported' = NoExport
    /\ shown' = Silent

\* The getStagedChanges promise of the i-th pending startReview settles and
\* startReview runs to its end.
StartReviewSettles(i) ==
    /\ i \in 1..Len(reviews)
    /\ reviews' = RemoveAt(reviews, i)
    /\ CASE startReviewBranch(reviews[i]) = "error" ->
              /\ shown' = startReviewFailure(reviews[i])
              /\ UNCHANGED << currentPanel, panels, updates >>
         [] startReviewBranch(reviews[i]) = "noChanges" ->
              /\ shown' = Notify("No staged changes found. Please stage some files first.")
              /\ UNCHANGED << currentPanel, panels, updates >>
         [] OTHER ->
              /\ createOrShow(reviews[i].changes)
              /\ shown' = Silent
    /\ UNCHANGED << anVars, htmlVars, gitVars, repoVars, reviewsStarted,
                    inbox, messagesPosted, dialogs, editor >>
    /\ triggered' = << >>
    /\ exported' = NoExport

\* analyzeChanges of the i-th pending _update settles; _update assigns the
\* report view, or the error view when it rejected.
UpdateSettles(i, lm) ==
    /\ i \in 1..Len(updates)
    /\ panels' = [panels EXCEPT ![updates[i].panel] =
                      setHtml(@, settledHtml(analyzeChanges(updates[i].changes,
                                                            lm)))]
    /\ updates' = RemoveAt(updates, i)
    /\ UNCHANGED << anVars, htmlVars, gitVars, repoVars, currentPanel,
                    reviews, reviewsStarted, inbox, messagesPosted, dialogs,
                    editor >>
    /\ triggered' = << >>
    /\ exported' = NoExport
    /\ shown' = Silent

\* The user closes panel p: onDidDispose runs dispose(), which clears
\* currentPanel and disposes the listeners; messages of the webview are no
\* longer delivered.
ClosePanel(p) ==
    /\ p \in LivePanels
    /\ currentPanel' = 0
    /\ panels' = [panels EXCEPT ![p] = webviewPanelDispose(@)]
    /\ inbox' = SelectSeq(inbox, LAMBDA e : e.panel # p)
    /\ UNCHANGED << anVars, htmlVars, gitVars, repoVars, reviews,
                    reviewsStarted, updates, messagesPosted, dialogs, editor >>
    /\ triggered' = << >>
    /\ exported' = NoExport
    /\ shown' = Silent

\* The messages the script of the view shown in panel p can post.
Postable(p) ==
    (CASE panels[p].html.view = "main" ->
            { exportReportMessage(panels[p].html), refreshAnalysisMessage }
                \cup goToCodeButtons(panels[p].html)
       [] panels[p].html.view = "error" ->
            { refreshAnalysisMessage, openSettingsMessage }
       [] OTHER -> {})
      \cup OtherMessages

\* A script of the view shown in panel p posts message m.
WebviewPosts(p, m) ==
    /\ p \in LivePanels
    /\ m \in Postable(p)
    /\ messagesPosted < MaxMessages
    /\ messagesPosted' = messagesPosted + 1
    /\ inbox' = Append(inbox, [panel |-> p, message |-> m])
    /\ UNCHANGED << anVars, htmlVars, gitVars, repoVars, currentPanel,
                    panels, reviews, reviewsStarted, updates, dialogs, editor >>
    /\ triggered' = << >>
    /\ exported' = NoExport
    /\ shown' = Silent

\* The message handler of the panel runs for the oldest posted message.
\* gitOutcome is "none" when codeReview.goToLine is the revision that does
\* not call git.openChange, and else what git.openChange does.
HandleMessage(gitOutcome) ==
    /\ inbox # << >>
    /\ LET message == Head(inbox).message
           calls == onDidReceiveMessage(message)
           call == IF calls = << >> THEN "none" ELSE calls[1]
       IN  /\ triggered' = calls
           /\ CASE call = "_exportReport" ->
                    \* _exportReport up to its await of the save dialog
                    /\ exportReportBegin(message.report)
                    /\ UNCHANGED << reviews, reviewsStarted, editor >>
                [] call = "codeReview.startReview" ->
                    /\ StartReview
                    /\ shown' = Silent
                    /\ UNCHANGED << dialogs, editor >>
                [] call = "codeReview.goToLine" ->
                    /\ IF gitOutcome = "none"
                       THEN goToLineCommand(message.fileName,
                                            message.lineNumber)
                       ELSE goToLineOpenChange(message.fileName,
                                               message.lineNumber, gitOutcome)
                    /\ UNCHANGED << reviews, reviewsStarted, dialogs >>
                [] OTHER ->
                    /\ shown' = Silent
                    /\ UNCHANGED << reviews, reviewsStarted, dialogs, editor >>
    /\ inbox' = Tail(inbox)
    /\ UNCHANGED << anVars, htmlVars, gitVars, repoVars, currentPanel,
                    panels, updates, messagesPosted >>
    /\ exported' = NoExport

\* The save dialog of the i-th pending _exportReport settles: the user
\* cancels, or chooses a target and the write succeeds or fails.
ExportSettles(i, outcome) ==
    /\ i \in 1..Len(dialogs)
    /\ dialogs' = RemoveAt(dialogs, i)
    /\ exported' = [outcome |-> outcome,
                    file |-> exportedFile(dialogs[i], outcome)]
    /\ shown' = CASE outcome = "saved" -> Notify("Report saved")
                  [] outcome = "writeFails" -> Notify("Failed to export report")
                  [] OTHER -> Silent
    /\ triggered' = << >>
    /\ UNCHANGED << anVars, htmlVars, gitVars, repoVars, currentPanel,
                    panels, reviews, reviewsStarted, updates, inbox,
                    messagesPosted, editor >>

\* The user stages or unstages files: the index changes.
StageFiles(index) ==
    /\ gitEnv = "none"
    /\ index # indexChanges
    /\ indexChanges' = index
    /\ UNCHANGED << anVars, htmlVars, gitVars, gitEnv, currentPanel,
                    panels, reviews, reviewsStarted, updates, inbox,
                    messagesPosted, dialogs, editor >>
    /\ triggered' = << >>
    /\ exported' = NoExport
    /\ shown' = Silent

\* The user closes the repository in the editor: git.repositories no longer
\* holds a repository for the workspace folder.
CloseRepository ==
    /\ gitEnv = "none"
    /\ gitEnv' = "repository"
    /\ indexChanges' = << >>
    /\ UNCHANGED << anVars, htmlVars, gitVars, currentPanel,
                    panels, reviews, reviewsStarted, updates, inbox,
                    messagesPosted, dialogs, editor >>
    /\ triggered' = << >>
    /\ exported' = NoExport
    /\ shown' = Silent

Next ==
    \/ \E index \in ExtIndexLists : StageFiles(index)
    \/ CloseRepository
    \/ RunStartReview
    \/ \E i \in 1..Len(reviews) : StartReviewSettles(i)
    \/ \E i \in 1..Len(updates) : \E lm \in ExtLmOutcomes : UpdateSettles(i, lm)
    \/ \E p \in 1..Len(panels) : ClosePanel(p)
    \/ \E p \in 1..Len(panels) : \E m \in Postable(p) : WebviewPosts(p, m)
    \/ \E gitOutcome \in {"none"} \cup GitOpenOutcomes :
          HandleMessage(gitOutcome)
    \/ \E i \in 1..Len(dialogs) :
          \E outcome \in {"cancelled", "saved", "writeFails"} :
              ExportSettles(i, outcome)

Spec == Init /\ [][Next]_vars

\* ------------------------------------------------------------------------
\* Properties of analyzeChanges (SpecAnalyzer)
\* ------------------------------------------------------------------------
anReport == anResult.report[1]

\* The positions << file index, issue index >> of the issues of a report.
IssuePositions(report) ==
    UNION { { << i, j >> : j \in 1..Len(report.files[i].issues) } :
            i \in 1..Len(report.files) }

AllIssues(report) ==
    { report.files[p[1]].issues[p[2]] : p \in IssuePositions(report) }

\* C1: when the Language Model API is absent or selecting a model or sending
\* the request fails, analyzeChanges resolves to a report with one entry per
\* change (the rule-based report) and does not reject.
C1_LmFailureResolvesRuleBased ==
    (anPc = "done" /\ anLm.kind \in LmFailureKinds)
        => /\ anResult.resolved
           /\ Len(anReport.files) = Len(anChanges)

\* C2 as stated: when the model's text is not parseable JSON, the report is
\* the one of the rule-based checks on the same changes.
C2_UnparseableGivesRuleBased ==
    (anPc = "done" /\ anLm.kind = "responded" /\ anLm.response.parse = "error")
        => anResult = performRuleBasedAnalysis(anChanges)

\* C2 amended: when the model's text is not parseable JSON, analyzeChanges
\* resolves to the fallback report: one entry per change, in order, each with
\* the single info issue "LLM Analysis Unavailable", no errors, no warnings
\* and overall score 5.
C2_UnparseableGivesFallback ==
    (anPc = "done" /\ anLm.kind = "responded" /\ anLm.response.parse = "error")
        => /\ anResult.resolved
           /\ Len(anReport.files) = Len(anChanges)
           /\ \A i \in 1..Len(anChanges) :
                /\ anReport.files[i].fileName = anChanges[i].fileName
                /\ anReport.files[i].filePath = anChanges[i].filePath
                /\ Len(anReport.files[i].issues) = 1
                /\ anReport.files[i].issues[1].type = "info"
                /\ anReport.files[i].issues[1].title = "LLM Analysis Unavailable"
           /\ anReport.summary.errors = 0
           /\ anReport.summary.warnings = 0
           /\ anReport.summary.suggestions = Len(anChanges)
           /\ anReport.summary.overallScore = 5

C2_Witness ==
    /\ anPc = "done"
    /\ anLm.kind = "responded"
    /\ anLm.response.parse = "error"
    /\ Len(anChanges) = MaxChanges
    /\ anChanges[1].newContent # None
    /\ anResult.resolved
    /\ Len(anReport.files) = MaxChanges

\* C3: every issue of every report analyzeChanges resolves to has one of the
\* four issue types, a title and a description.
C3_IssuesWellFormed ==
    (anPc = "done" /\ anResult.resolved)
        => \A issue \in AllIssues(anReport) :
              /\ issue.type \in IssueTypes
              /\ issue.title # Absent
              /\ issue.description # Absent

NumberOfIssues(report, types) ==
    Cardinality({ p \in IssuePositions(report) :
                    report.files[p[1]].issues[p[2]].type \in types })

CountsAgree(report) ==
    /\ report.summary.totalIssues = Cardinality(IssuePositions(report))
    /\ report.summary.errors = NumberOfIssues(report, {"error"})
    /\ report.summary.warnings = NumberOfIssues(report, {"warning"})
    /\ report.summary.filesAnalyzed = Len(report.files)

\* C4 as stated: in every report the aggregate counts agree with the per-file
\* issue lists.
C4_CountsAgreeAlways ==
    (anPc = "done" /\ anResult.resolved) => CountsAgree(anReport)

FromParsedResponse ==
    anLm.kind = "responded" /\ anLm.response.parse = "object"

\* C4 amended: in every report that does not come from a parsed model
\* response (rule-based analysis or fallback report) the aggregate counts
\* agree with the per-file issue lists.
C4_CountsAgreeUnlessParsed ==
    (anPc = "done" /\ anResult.resolved /\ ~FromParsedResponse)
        => CountsAgree(anReport)

C4_Witness ==
    /\ anPc = "done"
    /\ anResult.resolved
    /\ anLm.kind = "sendThrows"
    /\ Len(anChanges) = MaxChanges
    /\ anReport.summary.filesAnalyzed = MaxChanges
    /\ anReport.summary.errors > 0
    /\ anReport.summary.warnings > 0
    /\ anReport.summary.totalIssues
          > anReport.summary.errors + anReport.summary.warnings



\* The number a parsed response gives for a field of its summary, or the
\* default when the response has no summary or the summary has no such field.
ResponseNumber(field, default) ==
    IF anLm.response.summary = None THEN default
    ELSE IF anLm.response.summary[1][field] = MissingNum THEN default
    ELSE anLm.response.summary[1][field]

\* C24: for a model response that parses as JSON the report's errors,
\* warnings and suggestions are the response's criticalIssues, warnings and
\* suggestions, 0 for a missing one, totalIssues is their sum, overallScore
\* is the response's score, 5 when it is missing, files is the response's
\* files, empty when missing, and filesAnalyzed is the number of changes.
C24_ParsedResponseCopied ==
    (anPc = "done" /\ anLm.kind = "responded"
        /\ anLm.response.parse # "error")
        => /\ anResult.resolved
           /\ anReport.summary.errors = ResponseNumber("criticalIssues", 0)
           /\ anReport.summary.warnings = ResponseNumber("warnings", 0)
           /\ anReport.summary.suggestions = ResponseNumber("suggestions", 0)
           /\ anReport.summary.totalIssues
                 = ResponseNumber("criticalIssues", 0)
                     + ResponseNumber("warnings", 0)
                     + ResponseNumber("suggestions", 0)
           /\ anReport.summary.overallScore = ResponseNumber("overallScore", 5)
           /\ anReport.files = (IF anLm.response.files = None THEN << >>
                                ELSE anLm.response.files[1])
           /\ anReport.summary.filesAnalyzed = Len(anChanges)

\* ------------------------------------------------------------------------
\* Properties of the rule-based analysis (SpecRules)
\* ------------------------------------------------------------------------
\* The texts of a line and of a whole content.
TextsOf(line) == line.toks

AllTexts(lines) == UNION { TextsOf(lines[n]) : n \in 1..Len(lines) }

\* A rule finds something on a line.
LineRuleFires(line) ==
    \/ "console.log" \in TextsOf(line) /\ "// TODO: Remove" \notin TextsOf(line)
    \/ TextsOf(line) \cap {"TODO", "FIXME", "// TODO: Remove"} # {}
    \/ TextsOf(line) \cap {"eval(", "innerHTML ="} # {}
    \/ line.long

\* A rule finds something in the file as a whole.
FileRuleFires(change) ==
    LET texts == AllTexts(change.newContent[1])
    IN  \/ "async " \in texts /\ texts \cap {"try {", ".catch("} = {}
        \/ /\ change.fileName \in {"a.ts", "c.tsx"}
           /\ "any" \in texts
           /\ "// eslint-disable" \notin texts

NoRuleFires(change) ==
    /\ \A n \in 1..Len(change.newContent[1]) :
          ~LineRuleFires(change.newContent[1][n])
    /\ ~FileRuleFires(change)

\* C21: in a report of the rule-based analysis every file has at least one
\* issue, an issue of type positive is its file's only issue, and a file
\* has it exactly when no rule found anything in the file.
C21_PositiveOnlyAlone ==
    anPc = "done"
        => /\ anResult.resolved
           /\ Len(anReport.files) = Len(anChanges)
           /\ \A i \in 1..Len(anReport.files) :
                LET issues == anReport.files[i].issues
                IN  /\ Len(issues) >= 1
                    /\ \A j \in 1..Len(issues) :
                          issues[j].type = "positive" => Len(issues) = 1
                    /\ (\E j \in 1..Len(issues) : issues[j].type = "positive")
                          <=> NoRuleFires(anChanges[i])

\* The first file has several issues and the second only the positive note.
C21_Witness ==
    /\ anPc = "done"
    /\ Len(anChanges) = 2
    /\ Len(anReport.files[1].issues) >= 3
    /\ Len(anReport.files[2].issues) = 1
    /\ anReport.files[2].issues[1].type = "positive"


LineTitles ==
    {"Console.log Statement", "TODO/FIXME Comment", "Potential Security Risk",
     "Long Line"}

FileTitles == {"Missing Error Handling", "TypeScript 'any' Type"}

\* The rule with the given title finds something on the line.
LineRule(title, line) ==
    CASE title = "Console.log Statement" ->
            /\ "console.log" \in TextsOf(line)
            /\ "// TODO: Remove" \notin TextsOf(line)
      [] title = "TODO/FIXME Comment" ->
            TextsOf(line) \cap {"TODO", "FIXME", "// TODO: Remove"} # {}
      [] title = "Potential Security Risk" ->
            TextsOf(line) \cap {"eval(", "innerHTML ="} # {}
      [] title = "Long Line" -> line.long

\* The positions of the issues with the given title and line number.
IssuesAt(issues, title, n) ==
    { j \in 1..Len(issues) :
        issues[j].title = title /\ issues[j].lineNumber = n }

\* C22: in the rule-based analysis of a file every issue found on a line
\* carries the 1-based number of that line, one issue for each rule that
\* finds something on the line; these issues come in ascending line order
\* and before the issues of the file as a whole, which carry no line number
\* and occur at most once each, the 'any' issue only for a file name ending
\* in .ts or .tsx.
C22_LineIssuesNumberedAndOrdered ==
    anPc = "done"
        => \A i \in 1..Len(anReport.files) :
             LET issues == anReport.files[i].issues
                 lines == anChanges[i].newContent[1]
             IN  /\ \A n \in 1..Len(lines) : \A title \in LineTitles :
                       Cardinality(IssuesAt(issues, title, n))
                          = IF LineRule(title, lines[n]) THEN 1 ELSE 0
                 /\ \A j \in 1..Len(issues) :
                       /\ issues[j].title \in LineTitles
                             => issues[j].lineNumber \in 1..Len(lines)
                       /\ issues[j].title \notin LineTitles
                             => issues[j].lineNumber = NoLine
                 /\ \A j, k \in 1..Len(issues) :
                       (j < k /\ issues[k].lineNumber # NoLine)
                          => /\ issues[j].lineNumber # NoLine
                             /\ issues[j].lineNumber <= issues[k].lineNumber
                 /\ \A title \in FileTitles :
                       Cardinality(IssuesAt(issues, title, NoLine)) <= 1
                 /\ IssuesAt(issues, "TypeScript 'any' Type", NoLine) # {}
                       => anChanges[i].fileName \in {"a.ts", "c.tsx"}

\* A file of three lines has issues on its first and on its last line and
\* both issues of the file as a whole; a file that is not TypeScript uses
\* 'any' and has no issue for it.
C22_Witness ==
    /\ anPc = "done"
    /\ Len(anChanges) = 2
    /\ LET issues == anReport.files[1].issues
       IN  /\ Len(anChanges[1].newContent[1]) = 3
           /\ issues[1].lineNumber = 1
           /\ \E j \in 1..Len(issues) : issues[j].lineNumber = 3
           /\ issues[Len(issues) - 1].title = "Missing Error Handling"
           /\ issues[Len(issues)].title = "TypeScript 'any' Type"
    /\ "any" \in AllTexts(anChanges[2].newContent[1])
    /\ Len(anReport.files[2].issues) = 1


\* 9 less two for every error and one for every warning.
ScoreBeforeFloor(report) ==
    9 - 2 * NumberOfIssues(report, {"error"})
      - NumberOfIssues(report, {"warning"})

\* The step in which the changes are analyzed again with one more line.
AnalyzedAgainStep ==
    /\ anPc = "done"
    /\ anPc' = "done"
    /\ anChanges' # anChanges

NonEmptyDiffs ==
    { i \in 1..Len(indexChanges) :
        diffOf(indexChanges[i]) \notin {"", DiffThrows} }

\* C7: the changes getStagedChanges resolves to are exactly the index entries
\* with a non-empty diff, one entry each, in index order.
C7_StagedChangesExact ==
    (gitPc = "done" /\ gitResult.resolved)
        => \E f \in [1..Len(gitResult.changes) -> 1..Len(indexChanges)] :
              /\ \A a, b \in 1..Len(gitResult.changes) : a < b => f[a] < f[b]
              /\ { f[k] : k \in 1..Len(gitResult.changes) } = NonEmptyDiffs
              /\ \A k \in 1..Len(gitResult.changes) :
                    /\ gitResult.changes[k].filePath = indexChanges[f[k]].fsPath
                    /\ gitResult.changes[k].diff = diffOf(indexChanges[f[k]])

C7_Witness ==
    /\ gitPc = "done"
    /\ gitResult.resolved
    /\ Len(indexChanges) = MaxStaged
    /\ diffOf(indexChanges[1]) = ""
    /\ HasBit(indexChanges[MaxStaged].status, INDEX_DELETED)
    /\ Len(gitResult.changes) = MaxStaged - 1
    /\ gitResult.changes[MaxStaged - 1].filePath = indexChanges[MaxStaged].fsPath


\* The index entries whose diff call throws.
ThrowingDiffs ==
    { i \in 1..Len(indexChanges) : diffOf(indexChanges[i]) = DiffThrows }

\* C19: when the diff call of a staged file throws, getStagedChanges does not
\* reject, returns no change for that file, and still returns a change for
\* every other staged file whose diff is a non-empty text.
C19_DiffFailureSkipsFile ==
    (gitPc = "done" /\ gitEnv = "none" /\ ThrowingDiffs # {})
        => /\ gitResult.resolved
           /\ \A i \in ThrowingDiffs :
                 \A k \in 1..Len(gitResult.changes) :
                    gitResult.changes[k].filePath # indexChanges[i].fsPath
           /\ \A i \in 1..Len(indexChanges) :
                 (i \notin ThrowingDiffs /\ diffOf(indexChanges[i]) # "")
                    => \E k \in 1..Len(gitResult.changes) :
                          /\ gitResult.changes[k].filePath
                                = indexChanges[i].fsPath
                          /\ gitResult.changes[k].diff
                                = diffOf(indexChanges[i])

\* The diff of the first staged file threw and the second file is returned.
C19_Witness ==
    /\ gitPc = "done"
    /\ Len(indexChanges) = MaxStaged
    /\ 1 \in ThrowingDiffs
    /\ Len(gitResult.changes) = MaxStaged - 1
    /\ gitResult.changes[1].filePath = indexChanges[2].fsPath


\* The change type by the value of the status: the 4 bit is set when the
\* remainder modulo 8 is 4 or more, the 2 bit when the remainder modulo 4
\* is 2 or more.
TypeByBits(status) ==
    IF status % 8 >= 4 THEN "deleted"
    ELSE IF status % 4 >= 2 THEN "added"
    ELSE "modified"

\* C20: getChangeType gives deleted for every status with the 4 bit set,
\* also with the 2 bit set as well, added for a status with the 2 bit and
\* without the 4 bit, and modified for every other status, renamed (8),
\* copied (16) and 0 among them; every change returned has the type of its
\* index entry's status.
C20_ChangeTypeByBits ==
    gitPc = "done"
        => /\ \A i \in 1..Len(indexChanges) :
                 getChangeType(indexChanges[i].status)
                    = TypeByBits(indexChanges[i].status)
           /\ \A k \in 1..Len(gitResult.changes) :
                 \A i \in 1..Len(indexChanges) :
                    gitResult.changes[k].filePath = indexChanges[i].fsPath
                        => /\ gitResult.changes[k].changeType
                                \in {"deleted", "added", "modified"}
                           /\ (gitResult.changes[k].changeType = "deleted")
                                = (indexChanges[i].status \in {4, 6})
                           /\ (gitResult.changes[k].changeType = "added")
                                = (indexChanges[i].status = 2)
                           /\ (gitResult.changes[k].changeType = "modified")
                                = (indexChanges[i].status \in {0, 1, 8, 16})

\* A file staged with both the 2 bit and the 4 bit is returned as deleted
\* and a renamed one as modified.
C20_Witness ==
    /\ gitPc = "done"
    /\ Len(gitResult.changes) = 2
    /\ indexChanges[1].status = 6
    /\ gitResult.changes[1].changeType = "deleted"
    /\ indexChanges[2].status = 8
    /\ gitResult.changes[2].changeType = "modified"

\* ------------------------------------------------------------------------
\* SpecExport: _exportReport applied to every bounded report
\* ------------------------------------------------------------------------
\* A panel shows the report of the analysis of one file and its webview has
\* posted an exportReport message, with the report or, as the script of the
\* report view sends it, with null; the workspace folder may be gone by now.
ExportInit ==
    /\ gitEnv \in {"none", "workspaceFolder"}
    /\ indexChanges = << >>
    /\ AnIdle
    /\ GitIdle
    /\ HtmlIdle
    /\ \E changes \in ChangeListsOf(1) :
       \E lm \in LmOutcomes : \E withReport \in BOOLEAN :
          LET result == analyzeChanges(changes, lm)
          IN  /\ result.resolved
              /\ panels = << setHtml(NewPanel,
                                     getMainTemplate(result.report[1])) >>
              /\ inbox = << [panel |-> 1,
                             message |->
                                Message("exportReport", Absent,
                                        IF withReport THEN result.report
                                        ELSE None,
                                        NoPath, 0)] >>
    /\ currentPanel = 1
    /\ reviews = << >>
    /\ reviewsStarted = 1
    /\ updates = << >>
    /\ messagesPosted = 1
    /\ triggered = << >>
    /\ shown = << >>
    /\ dialogs = << >>
    /\ exported = NoExport
    /\ editor = [file |-> << >>, line |-> 0, col |-> 0]

ExportNext ==
    \/ HandleMessage("none")
    \/ \E i \in 1..Len(dialogs) :
          \E outcome \in {"cancelled", "saved", "writeFails"} :
              ExportSettles(i, outcome)

SpecExport == ExportInit /\ [][ExportNext]_vars

\* ------------------------------------------------------------------------
\* Properties of the running extension (Spec)
\* ------------------------------------------------------------------------
\* A step in which createOrShow ran: only it starts an _update.
CreateOrShowStep == Len(updates') = Len(updates) + 1

\* C5: at most one panel is live and currentPanel is undefined or that
\* panel; createOrShow called while currentPanel is set creates no panel,
\* reveals the current one, shows the loading view in it and starts an
\* _update for it.
C5_SinglePanel ==
    /\ [](/\ Cardinality(LivePanels) <= 1
          /\ currentPanel \in LivePanels \cup {0})
    /\ [][(CreateOrShowStep /\ currentPanel # 0)
            => /\ Len(panels') = Len(panels)
               /\ currentPanel' = currentPanel
               /\ panels'[currentPanel].reveals
                    = panels[currentPanel].reveals + 1
               /\ panels'[currentPanel].html = getLoadingTemplate
               /\ updates'[Len(updates')].panel = currentPanel]_vars

C5_Witness ==
    /\ currentPanel # 0
    /\ panels[currentPanel].reveals >= 1
    /\ Len(panels) = 1
    /\ reviewsStarted = MaxReviews

\* The step in which startReview continues after getStagedChanges resolved
\* to an empty list.
NoChangesStep ==
    \E i \in 1..Len(reviews) :
        /\ reviews[i].resolved
        /\ Len(reviews[i].changes) = 0
        /\ reviews' = RemoveAt(reviews, i)

\* C6: when getStagedChanges returns no change, startReview shows the
\* 'No staged changes found' message, creates no panel and starts no update
\* of an existing one.
C6_NoChangesNoPanel ==
    [][NoChangesStep
         => /\ shown'
                 = << "No staged changes found. Please stage some files first." >>
            /\ panels' = panels
            /\ currentPanel' = currentPanel
            /\ updates' = updates]_vars

\* A panel shows a report while a review found nothing staged.
C6_Witness ==
    /\ shown = << "No staged changes found. Please stage some files first." >>
    /\ currentPanel # 0
    /\ panels[currentPanel].html.view = "main"
    /\ panels[currentPanel].reveals = 0
    /\ updates = << >>
    /\ reviews = << >>

\* The step in which the message handler ran for the oldest message.
HandledStep ==
    /\ inbox # << >>
    /\ inbox' = Tail(inbox)
    /\ panels' = panels

\* The command of a message or, when it has none, its type.
KeyOf(message) ==
    IF message.command \notin {Absent, ""} THEN message.command
    ELSE message.type

ExpectedCall ==
    [exportReport |-> "_exportReport",
     refreshAnalysis |-> "codeReview.startReview",
     openSettings |-> "workbench.action.openSettings",
     goToCode |-> "codeReview.goToLine"]

\* C8: a message whose command (or type, without a command) is exportReport,
\* refreshAnalysis, openSettings or goToCode makes the handler call exactly
\* one of _exportReport, codeReview.startReview, the open-settings command
\* and codeReview.goToLine, respectively; any other message makes it call
\* nothing.
C8_OneCallPerMessage ==
    [][HandledStep
         => IF KeyOf(Head(inbox).message) \in DOMAIN ExpectedCall
            THEN triggered' = << ExpectedCall[KeyOf(Head(inbox).message)] >>
            ELSE triggered' = << >>]_vars

\* Two messages were handled; the last call was codeReview.goToLine and one
\* of the two messages caused no call.
C8_Witness ==
    /\ messagesPosted = MaxMessages
    /\ inbox = << >>
    /\ LivePanels # {}
    /\ triggered = << "codeReview.goToLine" >>

\* The file a path of a goToCode message denotes: the path itself when it is
\* absolute, and else the path below the workspace folder.
FileDenoted(path) ==
    IF Len(path) > 0 /\ path[1] = "ws" THEN path ELSE WorkspaceUri \o path

\* C9: after a goToCode message for file f and line n has been handled, f is
\* open in the editor with the cursor in column 0 of line n - 1, or of the
\* first line when n <= 0.
C9_GoToCodePlacesCursor ==
    [][(HandledStep /\ KeyOf(Head(inbox).message) = "goToCode")
         => LET message == Head(inbox).message
            IN  /\ editor'.file = FileDenoted(message.fileName)
                /\ editor'.line = IF message.lineNumber >= 1
                                  THEN message.lineNumber - 1 ELSE 0
                /\ editor'.col = 0]_vars

\* The step in which a webview script posted a message.
PostStep == Len(inbox') = Len(inbox) + 1

\* C10: the exportReport message the report view posts carries the analysis
\* report that the panel displays.
C10_ExportCarriesDisplayedReport ==
    [][(PostStep /\ inbox'[Len(inbox')].message.command = "exportReport")
         => LET posted == inbox'[Len(inbox')]
            IN  /\ panels[posted.panel].html.view = "main"
                /\ posted.message.report # None
                /\ posted.message.report = panels[posted.panel].html.report]_vars

\* The step in which the handler called _exportReport.
ExportCallStep ==
    /\ HandledStep
    /\ KeyOf(Head(inbox).message) = "exportReport"

\* C11: _exportReport writes a file only when a workspace folder exists and
\* the user chose a target, and the file then holds the pretty-printed JSON
\* of the report the call received; without a workspace folder, after a
\* cancelled dialog and after a failed write nothing is written and no
\* 'Report saved' is shown, and the first and the last show an error.
C11_ExportWrites ==
    [][/\ ExportCallStep
            => IF gitEnv = "workspaceFolder"
               THEN /\ shown' = << "No workspace folder found" >>
                    /\ dialogs' = dialogs
                    /\ exported'.file = None
               ELSE /\ dialogs' = Append(dialogs, Head(inbox).message.report)
                    /\ exported'.file = None
       /\ exported'.file # None
            => /\ gitEnv # "workspaceFolder"
               /\ exported'.outcome = "saved"
               /\ \E i \in 1..Len(dialogs) :
                     /\ dialogs' = RemoveAt(dialogs, i)
                     /\ exported'.file = Some(JsonStringify(dialogs[i], 2))
       /\ exported'.outcome = "saved" => exported'.file # None
       /\ exported'.outcome = "cancelled"
            => /\ exported'.file = None
               /\ shown' # << "Report saved" >>
       /\ exported'.outcome = "writeFails"
            => /\ exported'.file = None
               /\ shown' = << "Failed to export report" >>]_vars

\* The report of an analysis has been written.
C11_Witness ==
    /\ exported.outcome = "saved"
    /\ exported.file # None
    /\ exported.file # Some(JsonStringify(None, 2))
    /\ shown = << "Report saved" >>
    /\ dialogs = << >>

\* ------------------------------------------------------------------------
\* Properties of HtmlUtils (SpecEscape)
\* ------------------------------------------------------------------------
Entities == { Chars("&amp;"), Chars("&lt;"), Chars("&gt;"), Chars("&quot;"),
              Chars("&#39;") }

\* The text has none of the characters < > " ' and each of its & begins an
\* entity.
Escaped(text) ==
    /\ \A i \in 1..Len(text) : text[i] \notin {"<", ">", "\"", "'"}
    /\ \A i \in 1..Len(text) :
          text[i] = "&"
            => \E e \in Entities :
                  /\ i + Len(e) - 1 <= Len(text)
                  /\ SubSeq(text, i, i + Len(e) - 1) = e

\* C12: for every input value, string or not, escape returns a text without
\* < > " ' whose every & begins one of the five entities; and escaping an
\* escaped text that has an & changes it, escaping the & again.
C12_EscapeAlwaysEscapes ==
    /\ htmlPc \in {"done", "again"} => Escaped(htmlOutput[1])
    /\ htmlPc = "again"
         => /\ Escaped(htmlOutput[2])
            /\ htmlOutput[2] = ReplaceAll(htmlOutput[1], "&", Chars("&amp;"))
            /\ (\E i \in 1..Len(htmlOutput[1]) : htmlOutput[1][i] = "&")
                  => htmlOutput[2] # htmlOutput[1]

\* ------------------------------------------------------------------------
\* Properties of _update (Spec)
\* ------------------------------------------------------------------------
\* The step in which the analysis of a pending _update settled.
UpdateSettledStep == Len(updates') = Len(updates) - 1

\* The views _update may assign for the given changes once the analysis has
\* settled.
SettledViews(changes) ==
    { getErrorTemplate }
      \cup { getMainTemplate(analyzeChanges(changes, lm).report[1]) :
               lm \in { x \in ExtLmOutcomes :
                          analyzeChanges(changes, x).resolved } }

PendingFor(p) == { i \in 1..Len(updates) : updates[i].panel = p }

\* C13: an _update first shows the loading view and, once its analysis has
\* settled, replaces the content by the report view or the error view; a
\* panel with no analysis running never shows the loading view.
C13_LoadingThenFinal ==
    /\ [][CreateOrShowStep
            => panels'[updates'[Len(updates')].panel].html
                  = getLoadingTemplate]_vars
    /\ [][UpdateSettledStep
            => \E i \in 1..Len(updates) :
                  /\ updates' = RemoveAt(updates, i)
                  /\ updates[i].panel \in LivePanels
                        => panels'[updates[i].panel].html
                              \in SettledViews(updates[i].changes)]_vars
    /\ [](\A p \in LivePanels :
            PendingFor(p) = {} => panels[p].html.view \in {"main", "error"})

\* A panel that was revealed for a second _update has settled into the error
\* view.
C13_Witness ==
    /\ updates = << >>
    /\ currentPanel # 0
    /\ panels[currentPanel].html.view = "error"
    /\ panels[currentPanel].reveals = 1

\* C14: when createOrShow is called again while the analysis of the earlier
\* call is running, the panel shows, once both analyses have finished, the
\* report for the changes of the later call, in whichever order they finish.
C14_LatestCallWins ==
    \A p \in LivePanels :
        (PendingFor(p) = {} /\ panels[p].reveals >= 1)
          => panels[p].html \in SettledViews(panels[p].changes)

\* C15: once a panel has been disposed, no _update that was pending at that
\* time assigns html to the webview of that panel.
C15_NoAssignmentAfterDispose ==
    \A p \in 1..Len(panels) : ~panels[p].assignedAfterDispose

\* ------------------------------------------------------------------------
\* Properties of refresh (Spec)
\* ------------------------------------------------------------------------
\* The step in which the startReview that the handler has just started for
\* a refreshAnalysis message continues after getStagedChanges, the panel
\* still being open.
RefreshContinuesStep ==
    /\ triggered = << "codeReview.startReview" >>
    /\ reviews # << >>
    /\ reviews' = RemoveAt(reviews, Len(reviews))
    /\ reviews[Len(reviews)].resolved
    /\ currentPanel \in LivePanels

\* C16: a processed refreshAnalysis message makes the panel show a report of
\* the changes staged at that time: an _update for these changes is started
\* and, when nothing is staged any more, the panel does not keep the report
\* of the earlier changes.
C16_RefreshShowsStagedChanges ==
    [][RefreshContinuesStep
         => LET staged == reviews[Len(reviews)].changes
            IN  IF staged = << >>
                THEN panels[currentPanel].html.view = "main"
                        => panels'[currentPanel].html
                              # panels[currentPanel].html
                ELSE updates' = Append(updates, [panel |-> currentPanel,
                                                 changes |-> staged])]_vars

\* ------------------------------------------------------------------------
\* Properties of dispose (Spec)
\* ------------------------------------------------------------------------
\* The step in which panel p was closed.
ClosedStep(p) ==
    /\ p \in LivePanels
    /\ panels'[p].disposed

ReviewStartedStep == Len(reviews') = Len(reviews) + 1

\* The step in which startReview continues after the rejection of the i-th
\* pending getStagedChanges call.
RejectedStep(i) ==
    /\ i \in 1..Len(reviews)
    /\ ~reviews[i].resolved
    /\ reviews' = RemoveAt(reviews, i)

\* The error for the first lookup that finds nothing.
ExpectedRejection ==
    IF gitEnv = "workspaceFolder" THEN "No workspace folder found"
    ELSE IF gitEnv = "gitExtension" THEN "Git extension not found"
    ELSE "No git repository found for current workspace"

EscapedTexts(value) ==
    { escape(value), toUpperCase(escape(value)), escapeCode(value) }

\* The parts of the rendered files content that insert a string of the
\* analysis.
InsertsString(part) ==
    /\ part.kind = "text"
    /\ part.value.type = "string"
    /\ ~Falsy(part.value)

\* C25: every string taken from the analysis report (file name, file path,
\* issue type, title, description, code snippet, suggestion) is inserted into
\* the rendered report only after HtmlUtils.escape or HtmlUtils.escapeCode,
\* at every place where it is inserted, the attributes of the go-to-code
\* button included.
C25_InsertedTextEscaped ==
    (htmlPc = "done" /\ ~htmlOutput[1].threw)
        => \A k \in 1..Len(htmlOutput[1].filesContent) :
              LET part == htmlOutput[1].filesContent[k]
              IN  InsertsString(part) => part.text \in EscapedTexts(part.value)

\* The pieces of the template that are placeholders.
IsPlaceholder(piece) ==
    \E n \in 1..Len(Placeholders) : piece \in Placeholders[n].pattern

\* The name of the value a placeholder of the template stands for.
ValueOf(piece) ==
    Placeholders[CHOOSE n \in 1..Len(Placeholders) :
                    piece \in Placeholders[n].pattern].value

\* The template with each of its placeholders replaced by its value, and
\* the values left as they are.
Substituted(template, values) ==
    Join([k \in 1..Len(template) |->
            IF IsPlaceholder(template[k]) THEN values[ValueOf(template[k])]
            ELSE << template[k] >>],
         1, Len(template))

\* C26: processMainTemplate replaces every placeholder of the template by
\* its value, and the text that comes from the analysis is inserted as it is
\* (after escaping): a placeholder token or a $-sequence inside a file name,
\* title, description, snippet or suggestion is neither substituted nor
\* expanded in the output.
C26_AnalysisTextInsertedAsIs ==
    (htmlPc = "done" /\ ~htmlOutput[1].threw)
        => htmlOutput[1].html
             = Substituted(MainTemplate, templateValues(htmlInput))

\* The positions of the parts that are the given markup, in order.
PositionsOf(parts, markup) ==
    SelectSeq([k \in 1..Len(parts) |-> k],
              LAMBDA k : parts[k] = Markup(<< markup >>))

\* The ids of the issue elements among the parts from position lo to
\* position hi, in order.
IssueIdsIn(parts, lo, hi) ==
    LET at == PositionsOf(SubSeq(parts, lo, hi), IssueIdAttribute)
    IN  [n \in 1..Len(at) |-> parts[lo + at[n]].text]

\* The file sections of the parts are those of the files, in their order,
\* each with its position as data-file-index and with the issue elements of
\* its file, in their order, under the ids position-position.
SectionsOfFiles(parts, files) ==
    LET sections == PositionsOf(parts, FileSectionOpen)
        end(i) == IF i = Len(sections) THEN Len(parts)
                  ELSE sections[i + 1] - 1
    IN  /\ Len(sections) = Len(files)
        /\ \A i \in 1..Len(sections) :
              LET ids == IssueIdsIn(parts, sections[i], end(i))
              IN  /\ parts[sections[i] + 1].text = NumberText(i - 1)
                  /\ parts[sections[i] + 3].value = files[i].fileName
                  /\ Len(ids) = Len(files[i].issues)
                  /\ \A j \in 1..Len(ids) :
                        ids[j] = NumberText(i - 1) \o << "-" >>
                                   \o NumberText(j - 1)

\* No two issue elements of the parts share an id.
IssueIdsUnique(parts) ==
    LET ids == IssueIdsIn(parts, 1, Len(parts))
    IN  \A m, n \in 1..Len(ids) : m # n => ids[m] # ids[n]

\* The text holds the piece.
Holds(text, piece) == \E k \in 1..Len(text) : text[k] = piece

\* C27: in the rendered report the file sections appear in the order of
\* report.files with data-file-index equal to their position, every issue
\* element has the id fileIndex-issueIndex and no two issue elements share
\* an id; when files is not a list the 'No files to display' placeholder is
\* rendered instead.
C27_SectionsIdsAndPlaceholder ==
    htmlPc = "done"
        => /\ ~htmlOutput[1].threw
           /\ IF IsArray(htmlInput.files)
              THEN /\ SectionsOfFiles(htmlOutput[1].filesContent,
                                      htmlInput.files.items)
                   /\ IssueIdsUnique(htmlOutput[1].filesContent)
              ELSE /\ htmlOutput[1].filesContent
                        = << Markup(<< NoFilesPlaceholder >>) >>
                   /\ Holds(htmlOutput[1].html, NoFilesPlaceholder)

====
